---- MODULE Spec2Model ----
(***************************************************************************)
(* Model of the per-keystroke Vietnamese input-method engine               *)
(* (core/src/engine/mod.rs) and of its shortcut table                      *)
(* (core/src/engine/shortcut.rs).                                          *)
(*                                                                         *)
(* Keys are named by the character printed on them ("a" .. "z",            *)
(* "0" .. "9", "space", "dot", "delete"); a character of the host text or  *)
(* of an edit command is the record [k, caps, tone, mark]: the base        *)
(* letter, its case, its vowel modifier and its pitch mark, so that        *)
(* composing a character is not the identity on keys.                      *)
(* Buffer positions are 1-based here and 0-based in the source.            *)
(***************************************************************************)
EXTENDS Integers, Sequences, FiniteSets, TLC

VARIABLES buf, method, enabled, modern, last_transform,
          host, result, last_call, nkeys, net, script, case,
          table, sorted_triggers, query, matched, nops, table_op,
          word, verdict,
          cfg_file, config, cfg_call,
          pi_input, pi_mode, pi_output,
          RUNNING, pc, listeners, stops, presses, calls, hook_calls

\* The engine, its host and the run
evars == <<buf, method, enabled, modern, last_transform,
           host, result, last_call, nkeys, net, script, case>>

\* The shortcut table, the last try_match call on it and the last operation
\* that changed it
tvars == <<table, sorted_triggers, query, matched, nops, table_op>>

\* The letters handed to the validator and its classification of them
vvars == <<word, verdict>>

\* The configuration file, the configuration in memory and the last call
cvars == <<cfg_file, config, cfg_call>>

\* The last call of the FFI process_input: its input, its mode and its answer
pvars == <<pi_input, pi_mode, pi_output>>

\* The keyboard hook: the RUNNING flag, the position of every thread inside
\* start, the listener threads spawned, the calls of stop and of start/stop so
\* far, the key presses and the callbacks they caused
hvars == <<RUNNING, pc, listeners, stops, presses, calls, hook_calls>>

vars == <<evars, tvars, vvars, cvars, pvars, hvars>>

\* ------------------------------------------------------------------------
\* Bounds of the model
\* ------------------------------------------------------------------------

\* Number of calls (key events and configuration calls) of a free run.
MaxKeys == 4

\* Number of add, remove and clear calls on a shortcut table.
MaxTableOps == 1

\* Number of letters of a word typed for the validator.
MaxWordLen == 4

\* Number of consonants in front of the table sequence handed to process_input.
MaxPrefix == 2

\* Number of threads calling start_hook and stop_hook, of such calls, and of
\* key presses.
NumCallers == 2
MaxHookCalls == 3
MaxPresses == 2

\* ------------------------------------------------------------------------
\* data::keys (key classification)
\* ------------------------------------------------------------------------

VowelKeys == {"a", "e", "i", "o", "u", "y"}

LetterKeys == {"a", "b", "c", "d", "e", "f", "g", "h", "i", "j", "k", "l", "m",
               "n", "o", "p", "q", "r", "s", "t", "u", "v", "w", "x", "y", "z"}

DigitKeys == {"0", "1", "2", "3", "4", "5", "6", "7", "8", "9"}

BreakKeys == {"space", "dot", "comma", "tab", "return"}

\* The arrow keys: they are no letters and no break keys.
ArrowKeys == {"left", "right", "up", "down"}

DELETE == "delete"

\* A key code that is none of the codes the key table names.
OTHER_KEY == "other"

is_vowel(key) == key \in VowelKeys

is_letter(key) == key \in LetterKeys

is_consonant(key) == key \in LetterKeys \ VowelKeys

is_break(key) == key \in BreakKeys

\* ------------------------------------------------------------------------
\* data::chars (composition of characters)
\* ------------------------------------------------------------------------

\* tone: the vowel modifier (and the stroke of d)
TONE_NONE == 0
CIRCUMFLEX == 1
HORN == 2
BREVE == 3
STROKE == 4

\* mark: the pitch mark
MARK_NONE == 0
ACUTE == 1
GRAVE == 2
HOOK == 3
TILDE == 4
DOT == 5

Ch(k, caps, tone, mark) == [k |-> k, caps |-> caps, tone |-> tone, mark |-> mark]

\* Option::None of a character
NoChar == Ch("none", FALSE, 0, 0)

\* The plain character of a key name (lower case).
Lit(k) == Ch(k, FALSE, 0, 0)

\* The tone modifiers a vowel can carry.
TonesOf(key) ==
    CASE key = "a" -> {CIRCUMFLEX, BREVE}
      [] key = "e" -> {CIRCUMFLEX}
      [] key = "o" -> {CIRCUMFLEX, HORN}
      [] key = "u" -> {HORN}
      [] OTHER -> {}

\* chars::to_char: the composed character of a vowel, None for any other key;
\* a modifier the vowel cannot carry is dropped (the base letter is kept).
to_char(key, caps, tone, mark) ==
    IF ~is_vowel(key) THEN NoChar
    ELSE Ch(key, caps, IF tone \in TonesOf(key) THEN tone ELSE TONE_NONE, mark)

\* chars::get_d
get_d(caps) == Ch("d", caps, STROKE, MARK_NONE)

\* ------------------------------------------------------------------------
\* engine::buffer
\* ------------------------------------------------------------------------

\* Capacity of the buffer and of an edit command's character array.
MAX == 32

\* Char::new
NewChar(key, caps) == [key |-> key, caps |-> caps, tone |-> TONE_NONE, mark |-> MARK_NONE]

\* Buffer::push: a full buffer is cleared before it accepts the new entry.
BufPush(b, c) == IF Len(b) >= MAX THEN <<c>> ELSE Append(b, c)

\* Buffer::pop
BufPop(b) == IF Len(b) = 0 THEN b ELSE SubSeq(b, 1, Len(b) - 1)

\* Buffer::clear
BufClear(b) == <<>>

\* Buffer::find_vowels: the positions of the vowels, in order.
RECURSIVE VowelsFrom(_, _)
VowelsFrom(b, i) ==
    IF i > Len(b) THEN <<>>
    ELSE IF is_vowel(b[i].key) THEN <<i>> \o VowelsFrom(b, i + 1)
    ELSE VowelsFrom(b, i + 1)

find_vowels(b) == VowelsFrom(b, 1)

\* Buffer::find_vowel_by_key: the last entry with this key; 0 when there is none.
find_vowel_by_key(b, key) ==
    LET S == {i \in 1..Len(b) : b[i].key = key /\ is_vowel(key)}
    IN IF S = {} THEN 0 ELSE CHOOSE i \in S : \A j \in S : j <= i

\* ------------------------------------------------------------------------
\* input (the method descriptors): 0 = Telex, 1 = VNI
\* ------------------------------------------------------------------------

TELEX == 0
VNI == 1

\* Method::is_mark: the mark a key triggers, MARK_NONE when it triggers none.
is_mark(m, key) ==
    IF m = TELEX
    THEN CASE key = "s" -> ACUTE [] key = "f" -> GRAVE [] key = "r" -> HOOK
           [] key = "x" -> TILDE [] key = "j" -> DOT [] OTHER -> MARK_NONE
    ELSE CASE key = "1" -> ACUTE [] key = "2" -> GRAVE [] key = "3" -> HOOK
           [] key = "4" -> TILDE [] key = "5" -> DOT [] OTHER -> MARK_NONE

\* The last key of vowel_keys that lies in S; "none" when there is none.
LastIn(vowel_keys, S) ==
    LET I == {i \in 1..Len(vowel_keys) : vowel_keys[i] \in S}
    IN IF I = {} THEN "none" ELSE vowel_keys[CHOOSE i \in I : \A j \in I : j <= i]

NoTone == [tone |-> TONE_NONE, target |-> "none"]

ToneOn(tone, target) ==
    IF target = "none" THEN NoTone ELSE [tone |-> tone, target |-> target]

\* Method::is_tone_for: the tone modifier a key triggers and the vowel key it
\* targets, given the vowel keys of the buffer.
is_tone_for(m, key, vowel_keys) ==
    IF m = TELEX
    THEN CASE key \in {"a", "e", "o"} -> ToneOn(CIRCUMFLEX, LastIn(vowel_keys, {key}))
           [] key = "w" ->
                LET t == LastIn(vowel_keys, {"a", "o", "u"})
                IN ToneOn(IF t = "a" THEN BREVE ELSE HORN, t)
           [] OTHER -> NoTone
    ELSE CASE key = "6" -> ToneOn(CIRCUMFLEX, LastIn(vowel_keys, {"a", "e", "o"}))
           [] key = "7" -> ToneOn(HORN, LastIn(vowel_keys, {"o", "u"}))
           [] key = "8" -> ToneOn(BREVE, LastIn(vowel_keys, {"a"}))
           [] OTHER -> NoTone

\* Method::is_remove
is_remove(m, key) == IF m = TELEX THEN key = "z" ELSE key = "0"

\* Method::is_d: d after a buffered d (Telex), 9 after a buffered d (VNI).
is_d(m, key, prev_key) ==
    IF m = TELEX THEN key = "d" /\ prev_key = "d" ELSE key = "9" /\ prev_key = "d"

\* ------------------------------------------------------------------------
\* engine: results
\* ------------------------------------------------------------------------

ACTION_NONE == 0
ACTION_SEND == 1

Min(a, b) == IF a < b THEN a ELSE b

\* key_to_char: letters follow caps, digits do not; None for any other key.
key_to_char(key, caps) ==
    IF key \in LetterKeys THEN Ch(key, caps, TONE_NONE, MARK_NONE)
    ELSE IF key \in DigitKeys THEN Ch(key, FALSE, TONE_NONE, MARK_NONE)
    ELSE NoChar

\* Result::none
ResultNone == [action |-> ACTION_NONE, backspace |-> 0, count |-> 0, chars |-> <<>>]

\* Result::send: count is the u8 length of the output, chars its first MAX characters.
ResultSend(backspace, chars) ==
    [action |-> ACTION_SEND, backspace |-> backspace, count |-> Len(chars) % 256,
     chars |-> SubSeq(chars, 1, Min(Len(chars), MAX))]

\* Option::None of last_transform; kind 1 = mark, 2 = tone.
NoTransform == [key |-> "none", kind |-> 0, value |-> 0]

Transform(key, kind, value) == [key |-> key, kind |-> kind, value |-> value]

\* Engine::new
NewEngine ==
    [buf |-> <<>>, method |-> TELEX, enabled |-> TRUE, modern |-> TRUE,
     last_transform |-> NoTransform]

\* The value a handler returns: the engine after it and the edit command.
Out(e, r) == [e |-> e, r |-> r]

\* ------------------------------------------------------------------------
\* engine: rebuilding
\* ------------------------------------------------------------------------

\* The character of one buffer entry: composed for a vowel, plain otherwise.
EntryOut(c) ==
    IF to_char(c.key, c.caps, c.tone, c.mark) # NoChar
    THEN <<to_char(c.key, c.caps, c.tone, c.mark)>>
    ELSE IF key_to_char(c.key, c.caps) # NoChar THEN <<key_to_char(c.key, c.caps)>>
    ELSE <<>>

RECURSIVE RebuildOutput(_, _)
RebuildOutput(b, i) ==
    IF i > Len(b) THEN <<>> ELSE EntryOut(b[i]) \o RebuildOutput(b, i + 1)

\* The u8 count of the entries walked from position from to the end.
RebuildBackspaceOff(b, from) == (IF from > Len(b) THEN 1 ELSE Len(b) - from + 2) % 256

RebuildBackspace(b, from) == (IF from > Len(b) THEN 0 ELSE Len(b) - from + 1) % 256

\* Engine::rebuild_from
rebuild_from(b, from) ==
    IF RebuildOutput(b, from) = <<>> THEN ResultNone
    ELSE ResultSend(RebuildBackspace(b, from), RebuildOutput(b, from))

\* ------------------------------------------------------------------------
\* engine: mark placement
\* ------------------------------------------------------------------------

\* Engine::is_glide_vowel_pair
is_glide_vowel_pair(v1, v2) ==
    <<v1, v2>> \in {<<"o", "a">>, <<"o", "e">>, <<"u", "y">>, <<"u", "a">>, <<"u", "e">>}

\* Engine::has_final_consonant
has_final_consonant(b, last_vowel_pos) ==
    \E i \in (last_vowel_pos + 1)..Len(b) : is_consonant(b[i].key)

\* The open glide+vowel row: the 2nd vowel under modern placement, else the 1st.
GlidePairPosSwapped(vowels, modern_) == IF modern_ THEN vowels[1] ELSE vowels[2]

GlidePairPos(vowels, modern_) == IF modern_ THEN vowels[2] ELSE vowels[1]

\* The last row put on the 2nd vowel.
PlainPairPosLast(vowels) == vowels[2]

\* The open vowel+glide row (ao, ai, au, oi, ui, ...): the 1st vowel.
PlainPairPos(vowels) == vowels[1]

\* find_mark_pos for two vowels with the final consonant looked at before the
\* tone modifiers.
MarkPos2FinalFirst(b, modern_, vowels) ==
    LET v1 == b[vowels[1]].key
        v2 == b[vowels[2]].key
        v1_has_tone == b[vowels[1]].tone > 0
        v2_has_tone == b[vowels[2]].tone > 0
        has_final == has_final_consonant(b, vowels[2])
    IN  IF v1 = "u" /\ v2 = "o" THEN vowels[2]
        ELSE IF v1 = "i" /\ v2 = "e" THEN vowels[2]
        ELSE IF has_final THEN vowels[2]
        ELSE IF v1_has_tone /\ ~v2_has_tone THEN vowels[1]
        ELSE IF v2_has_tone THEN vowels[2]
        ELSE IF is_glide_vowel_pair(v1, v2) THEN GlidePairPos(vowels, modern_)
        ELSE PlainPairPos(vowels)

\* find_mark_pos for two vowels
MarkPos2(b, modern_, vowels) ==
    LET v1 == b[vowels[1]].key
        v2 == b[vowels[2]].key
        v1_has_tone == b[vowels[1]].tone > 0
        v2_has_tone == b[vowels[2]].tone > 0
        has_final == has_final_consonant(b, vowels[2])
    IN  IF v1 = "u" /\ v2 = "o" THEN vowels[2]
        ELSE IF v1 = "i" /\ v2 = "e" THEN vowels[2]
        ELSE IF v1_has_tone /\ ~v2_has_tone THEN vowels[1]
        ELSE IF v2_has_tone THEN vowels[2]
        ELSE IF has_final THEN vowels[2]
        ELSE IF is_glide_vowel_pair(v1, v2) THEN GlidePairPos(vowels, modern_)
        ELSE PlainPairPos(vowels)

\* find_mark_pos for three vowels or more without the row of the e or a in
\* the middle.
MarkPos3NoMiddleRow(b, vowels) ==
    LET n == Len(vowels)
        vkey(idx) == b[vowels[idx]].key
        Toned1 == {idx \in 2..n : b[vowels[idx]].tone > 0}
        Toned == {idx \in 1..n : b[vowels[idx]].tone > 0}
        First(S) == CHOOSE i \in S : \A j \in S : i <= j
    IN  IF n = 3 /\ vkey(1) = "u" /\ vkey(2) = "o" THEN vowels[2]
        ELSE IF Toned1 # {} THEN vowels[First(Toned1)]
        ELSE IF Toned # {} THEN vowels[First(Toned)]
        ELSE vowels[(n \div 2) + 1]

\* find_mark_pos for three vowels or more
MarkPos3(b, vowels) ==
    LET n == Len(vowels)
        vkey(idx) == b[vowels[idx]].key
        Mid == {idx \in 2..(n - 1) : vkey(idx) \in {"e", "a"}}
        Toned1 == {idx \in 2..n : b[vowels[idx]].tone > 0}
        Toned == {idx \in 1..n : b[vowels[idx]].tone > 0}
        First(S) == CHOOSE i \in S : \A j \in S : i <= j
    IN  IF n = 3 /\ vkey(1) = "u" /\ vkey(2) = "o" THEN vowels[2]
        ELSE IF Mid # {} THEN vowels[First(Mid)]
        ELSE IF Toned1 # {} THEN vowels[First(Toned1)]
        ELSE IF Toned # {} THEN vowels[First(Toned)]
        ELSE vowels[(n \div 2) + 1]

\* Engine::find_mark_pos (vowels: the positions find_vowels gives)
find_mark_pos(b, modern_, vowels) ==
    IF Len(vowels) = 0 THEN 0
    ELSE IF Len(vowels) = 1 THEN vowels[1]
    ELSE IF Len(vowels) = 2 THEN MarkPos2(b, modern_, vowels)
    ELSE MarkPos3(b, vowels)

\* ------------------------------------------------------------------------
\* engine: handlers (e is the engine record, see NewEngine)
\* ------------------------------------------------------------------------

\* The last vowel position whose entry satisfies P; 0 when there is none.
LastVowelWith(b, P(_)) ==
    LET S == {i \in 1..Len(b) : is_vowel(b[i].key) /\ P(b[i])}
    IN IF S = {} THEN 0 ELSE CHOOSE i \in S : \A j \in S : j <= i

\* A revert appends the literal key character to the rebuilt output.
AppendKeyChar(r, key, caps) ==
    IF key_to_char(key, caps) # NoChar /\ r.count < MAX
    THEN [r EXCEPT !.chars = Append(r.chars, key_to_char(key, caps)), !.count = r.count + 1]
    ELSE r

\* A stroke that is always lower case.
handle_dLower(e) ==
    Out([e EXCEPT !.buf = BufPop(e.buf)], ResultSend(1, <<get_d(FALSE)>>))

\* Engine::handle_d
handle_d(e) ==
    LET caps == IF Len(e.buf) > 0 THEN e.buf[Len(e.buf)].caps ELSE FALSE
    IN Out([e EXCEPT !.buf = BufPop(e.buf)], ResultSend(1, <<get_d(caps)>>))

\* Engine::handle_tone_with_key
handle_tone_with_key(e, key, tone, target_key) ==
    LET pos == find_vowel_by_key(e.buf, target_key)
    IN  IF pos = 0 THEN Out(e, ResultNone)
        ELSE LET b2 == [e.buf EXCEPT ![pos].tone = tone]
             IN Out([e EXCEPT !.buf = b2, !.last_transform = Transform(key, 2, tone)],
                    rebuild_from(b2, pos))

\* Engine::revert_tone
revert_tone(e, key, caps) ==
    LET HasTone(c) == c.tone > 0
        i == LastVowelWith(e.buf, HasTone)
        e1 == [e EXCEPT !.last_transform = NoTransform]
    IN  IF i = 0 THEN Out(e1, ResultNone)
        ELSE LET b2 == [e.buf EXCEPT ![i].tone = TONE_NONE]
             IN Out([e1 EXCEPT !.buf = b2], AppendKeyChar(rebuild_from(b2, i), key, caps))

\* A mark put on the last entry of the buffer, vowel or not.
handle_mark_with_keyLast(e, key, mark) ==
    LET vowels == find_vowels(e.buf)
        pos == Len(e.buf)
    IN  IF Len(vowels) = 0 THEN Out(e, ResultNone)
        ELSE LET b2 == [e.buf EXCEPT ![pos].mark = mark]
             IN Out([e EXCEPT !.buf = b2, !.last_transform = Transform(key, 1, mark)],
                    rebuild_from(b2, pos))

\* Engine::handle_mark_with_key
handle_mark_with_key(e, key, mark) ==
    LET vowels == find_vowels(e.buf)
        pos == find_mark_pos(e.buf, e.modern, vowels)
    IN  IF Len(vowels) = 0 THEN Out(e, ResultNone)
        ELSE LET b2 == [e.buf EXCEPT ![pos].mark = mark]
             IN Out([e EXCEPT !.buf = b2, !.last_transform = Transform(key, 1, mark)],
                    rebuild_from(b2, pos))

\* A revert that keeps the mark on the vowel.
RevertMarkBufKeep(b, i) == b

\* The buffer after a mark revert: the mark of entry i is cleared.
RevertMarkBuf(b, i) == [b EXCEPT ![i].mark = MARK_NONE]

\* Engine::revert_mark
revert_mark(e, key, caps) ==
    LET HasMark(c) == c.mark > 0
        i == LastVowelWith(e.buf, HasMark)
        e1 == [e EXCEPT !.last_transform = NoTransform]
    IN  IF i = 0 THEN Out(e1, ResultNone)
        ELSE LET b2 == RevertMarkBuf(e.buf, i)
             IN Out([e1 EXCEPT !.buf = b2], AppendKeyChar(rebuild_from(b2, i), key, caps))

\* Engine::handle_remove: from the last vowel back, the first vowel that carries
\* a mark or a tone loses its mark, or else its tone.
handle_remove(e) ==
    LET Marked(c) == c.mark > 0 \/ c.tone > 0
        i == LastVowelWith(e.buf, Marked)
    IN  IF i = 0 THEN Out(e, ResultNone)
        ELSE LET b2 == IF e.buf[i].mark > 0 THEN [e.buf EXCEPT ![i].mark = MARK_NONE]
                       ELSE [e.buf EXCEPT ![i].tone = TONE_NONE]
             IN Out([e EXCEPT !.buf = b2], rebuild_from(b2, i))

\* A normal key appended whatever the length of the buffer.
NormalKeyAppend(e, key, caps) ==
    Out([e EXCEPT !.last_transform = NoTransform,
                  !.buf = IF is_letter(key) THEN Append(e.buf, NewChar(key, caps))
                          ELSE BufClear(e.buf)],
        ResultNone)

\* Engine::process, the last branch: a normal key
NormalKey(e, key, caps) ==
    Out([e EXCEPT !.last_transform = NoTransform,
                  !.buf = IF is_letter(key) THEN BufPush(e.buf, NewChar(key, caps))
                          ELSE BufClear(e.buf)],
        ResultNone)

\* Engine::process
process(e, key, caps) ==
    LET prev_key == IF Len(e.buf) > 0 THEN e.buf[Len(e.buf)].key ELSE "none"
        vowels == find_vowels(e.buf)
        vowel_keys == [i \in 1..Len(vowels) |-> e.buf[vowels[i]].key]
        t == is_tone_for(e.method, key, vowel_keys)
        mark == is_mark(e.method, key)
        lt == e.last_transform
    IN  IF is_d(e.method, key, prev_key)
        THEN handle_d([e EXCEPT !.last_transform = NoTransform])
        ELSE IF t # NoTone
        THEN IF lt.kind = 2 /\ lt.key = key THEN revert_tone(e, key, caps)
             ELSE handle_tone_with_key(e, key, t.tone, t.target)
        ELSE IF mark # MARK_NONE
        THEN IF lt.kind = 1 /\ lt.key = key THEN revert_mark(e, key, caps)
             ELSE handle_mark_with_key(e, key, mark)
        ELSE IF is_remove(e.method, key)
        THEN handle_remove([e EXCEPT !.last_transform = NoTransform])
        ELSE NormalKey(e, key, caps)

\* A passthrough that leaves the buffer as it is.
PassThroughKeepBuf(e) == Out(e, ResultNone)

\* Engine::on_key, disabled or ctrl held: clear the buffer, emit None.
PassThrough(e) == Out([e EXCEPT !.buf = BufClear(e.buf)], ResultNone)

\* A break key that is kept as the first entry of the next word.
BreakKeyBuffered(e) == Out([e EXCEPT !.buf = <<NewChar("space", FALSE)>>], ResultNone)

\* Engine::on_key, a break key: clear the buffer, emit None.
BreakKey(e) == Out([e EXCEPT !.buf = BufClear(e.buf)], ResultNone)

\* Engine::on_key, backspace: pop the last entry, emit None.
DeleteKey(e) == Out([e EXCEPT !.buf = BufPop(e.buf)], ResultNone)

\* Engine::on_key
on_key(e, key, caps, ctrl) ==
    IF ~e.enabled \/ ctrl THEN PassThrough(e)
    ELSE IF is_break(key) THEN BreakKey(e)
    ELSE IF key = DELETE THEN DeleteKey(e)
    ELSE process(e, key, caps)

\* Engine::set_enabled
set_enabled(e, en) ==
    [e EXCEPT !.enabled = en, !.buf = IF ~en THEN BufClear(e.buf) ELSE e.buf]

\* Engine::set_method
set_method(e, m) == [e EXCEPT !.method = m]

\* Engine::set_modern
set_modern(e, m) == [e EXCEPT !.modern = m]

\* A clear that drops only the last entry.
clearLastOnly(e) == [e EXCEPT !.buf = BufPop(e.buf)]

\* Engine::clear
clear(e) == [e EXCEPT !.buf = BufClear(e.buf)]

\* ------------------------------------------------------------------------
\* The host: it applies each edit command to its text
\* ------------------------------------------------------------------------

\* The character a key prints when the engine passes it through.
TypedChar(key, caps) ==
    IF key_to_char(key, caps) # NoChar THEN <<key_to_char(key, caps)>>
    ELSE IF is_break(key) THEN <<Lit(key)>>
    ELSE <<>>

\* The host text after a key: a Send deletes `backspace` characters and inserts
\* the first `count` characters; on None the host handles the key itself
\* (prints its character, deletes one character on delete, nothing under ctrl).
HostApply(h, key, caps, ctrl, r) ==
    IF r.action = ACTION_SEND
    THEN SubSeq(h, 1, Len(h) - Min(r.backspace, Len(h)))
         \o SubSeq(r.chars, 1, Min(r.count, Len(r.chars)))
    ELSE IF ctrl THEN h
    ELSE IF key = DELETE THEN SubSeq(h, 1, Len(h) - Min(1, Len(h)))
    ELSE h \o TypedChar(key, caps)

\* What a key adds to the running sum of count - backspace: a passed-through
\* character is +1, a passed-through delete of a character -1.
NetOf(h, key, caps, ctrl, r) ==
    IF r.action = ACTION_SEND THEN r.count - r.backspace
    ELSE IF ctrl THEN 0
    ELSE IF key = DELETE THEN 0 - Min(1, Len(h))
    ELSE Len(TypedChar(key, caps))

\* ------------------------------------------------------------------------
\* engine::shortcut (strings are sequences of characters)
\* ------------------------------------------------------------------------

\* The string of a sequence of key names, in lower case.
Str(names) == [i \in 1..Len(names) |-> Lit(names[i])]

\* char::is_uppercase
is_uppercase(c) == c.caps

UpperCh(c) == IF c.k \in LetterKeys THEN [c EXCEPT !.caps = TRUE] ELSE c

LowerCh(c) == IF c.k \in LetterKeys THEN [c EXCEPT !.caps = FALSE] ELSE c

\* str::to_uppercase
to_uppercase(str) == [i \in 1..Len(str) |-> UpperCh(str[i])]

\* str::to_lowercase
to_lowercase(str) == [i \in 1..Len(str) |-> LowerCh(str[i])]

\* str::len: the triggers are typed key characters, one byte each.
StrLen(str) == Len(str)

IMMEDIATE == "immediate"
ON_WORD_BOUNDARY == "on_word_boundary"
EXACT == "exact"
MATCH_CASE == "match_case"

\* Shortcut::new
ShortcutNew(trigger, replacement) ==
    [trigger |-> to_lowercase(trigger), replacement |-> replacement,
     condition |-> ON_WORD_BOUNDARY, case_mode |-> MATCH_CASE, enabled |-> TRUE]

\* Shortcut::immediate
ShortcutImmediate(trigger, replacement) ==
    [trigger |-> to_lowercase(trigger), replacement |-> replacement,
     condition |-> IMMEDIATE, case_mode |-> EXACT, enabled |-> TRUE]

\* Option::None of a shortcut and of a match
NoShortcut ==
    [trigger |-> <<>>, replacement |-> <<>>, condition |-> "none", case_mode |-> "none",
     enabled |-> FALSE]

NoMatch == [found |-> FALSE, backspace_count |-> 0, output |-> <<>>, include_trigger_key |-> FALSE]

\* The sequences that hold each trigger of D once, longest first: the orders
\* that sorting the map's keys (in the map's own order) by length can give.
RECURSIVE SortedOrders(_)
SortedOrders(D) ==
    IF D = {} THEN {<<>>}
    ELSE UNION {{<<x>> \o q : q \in SortedOrders(D \ {x})} :
                    x \in {x \in D : \A y \in D : Len(x) >= Len(y)}}

\* An insert that keeps the value of a key already present.
MapInsertKeepOld(t, key, value) ==
    [x \in (DOMAIN t) \cup {key} |-> IF x \in DOMAIN t THEN t[x] ELSE value]

\* HashMap::insert
MapInsert(t, key, value) ==
    [x \in (DOMAIN t) \cup {key} |-> IF x = key THEN value ELSE t[x]]

\* HashMap::remove
MapRemove(t, key) == [x \in (DOMAIN t) \ {key} |-> t[x]]

\* ShortcutTable::new
EmptyTable == [x \in {} |-> NoShortcut]

\* The shortcuts of ShortcutTable::with_defaults
VietNam ==
    <<Ch("v", TRUE, TONE_NONE, MARK_NONE), Lit("i"), Ch("e", FALSE, CIRCUMFLEX, DOT), Lit("t"),
      Lit("space"), Ch("n", TRUE, TONE_NONE, MARK_NONE), Lit("a"), Lit("m")>>

HoChiMinh ==
    <<Ch("h", TRUE, TONE_NONE, MARK_NONE), Ch("o", FALSE, CIRCUMFLEX, GRAVE), Lit("space"),
      Ch("c", TRUE, TONE_NONE, MARK_NONE), Lit("h"), Ch("i", FALSE, TONE_NONE, ACUTE), Lit("space"),
      Ch("m", TRUE, TONE_NONE, MARK_NONE), Lit("i"), Lit("n"), Lit("h")>>

HaNoi ==
    <<Ch("h", TRUE, TONE_NONE, MARK_NONE), Ch("a", FALSE, TONE_NONE, GRAVE), Lit("space"),
      Ch("n", TRUE, TONE_NONE, MARK_NONE), Ch("o", FALSE, CIRCUMFLEX, DOT), Lit("i")>>

Duoc ==
    <<Ch("d", FALSE, STROKE, MARK_NONE), Ch("u", FALSE, HORN, MARK_NONE),
      Ch("o", FALSE, HORN, DOT), Lit("c")>>

Khong == <<Lit("k"), Lit("h"), Ch("o", FALSE, CIRCUMFLEX, MARK_NONE), Lit("n"), Lit("g")>>

DefaultShortcuts ==
    <<ShortcutNew(Str(<<"v", "n">>), VietNam), ShortcutNew(Str(<<"h", "c", "m">>), HoChiMinh),
      ShortcutNew(Str(<<"h", "n">>), HaNoi), ShortcutNew(Str(<<"d", "c">>), Duoc),
      ShortcutNew(Str(<<"k", "o">>), Khong)>>

RECURSIVE AddAll(_, _, _)
AddAll(t, list, i) ==
    IF i > Len(list) THEN t ELSE AddAll(MapInsert(t, list[i].trigger, list[i]), list, i + 1)

\* ShortcutTable::with_defaults (the map; sorted_triggers is one of its SortedOrders)
DefaultTable == AddAll(EmptyTable, DefaultShortcuts, 1)

\* ShortcutTable::lookup: the first trigger of the sorted list that equals the
\* lower-cased buffer and whose shortcut is enabled.
lookup(t, sorted, buffer) ==
    LET I == {i \in 1..Len(sorted) :
                 /\ to_lowercase(buffer) = sorted[i]
                 /\ sorted[i] \in DOMAIN t
                 /\ t[sorted[i]].enabled}
    IN IF I = {} THEN NoShortcut ELSE t[sorted[CHOOSE i \in I : \A j \in I : i <= j]]

\* The first character upper-cased, the rest as it is.
CapitalizeFirst(str) ==
    IF Len(str) = 0 THEN <<>> ELSE <<UpperCh(str[1])>> \o SubSeq(str, 2, Len(str))

\* The match_case branch that capitalises only a title-case trigger.
MatchCaseTitleOnly(trigger, replacement) ==
    IF \A i \in 1..Len(trigger) : is_uppercase(trigger[i]) THEN to_uppercase(replacement)
    ELSE IF Len(trigger) > 0 /\ is_uppercase(trigger[1])
            /\ \A i \in 2..Len(trigger) : ~is_uppercase(trigger[i])
    THEN CapitalizeFirst(replacement)
    ELSE replacement

\* ShortcutTable::apply_case, mode match_case
MatchCase(trigger, replacement) ==
    IF \A i \in 1..Len(trigger) : is_uppercase(trigger[i]) THEN to_uppercase(replacement)
    ELSE IF Len(trigger) > 0 /\ is_uppercase(trigger[1]) THEN CapitalizeFirst(replacement)
    ELSE replacement

\* ShortcutTable::apply_case
apply_case(trigger, replacement, mode) ==
    IF mode = EXACT THEN replacement ELSE MatchCase(trigger, replacement)

\* A word-boundary match that does not append the boundary key.
BoundaryOutputNoKey(s, buffer, key_char) == apply_case(buffer, s.replacement, s.case_mode)

\* ShortcutTable::try_match, on_word_boundary: the replacement, then the key.
BoundaryOutput(s, buffer, key_char) ==
    apply_case(buffer, s.replacement, s.case_mode)
        \o (IF key_char # NoChar THEN <<key_char>> ELSE <<>>)

\* ShortcutTable::try_match
try_match(t, sorted, buffer, key_char, is_word_boundary) ==
    LET s == lookup(t, sorted, buffer)
    IN  IF s = NoShortcut THEN NoMatch
        ELSE IF s.condition = IMMEDIATE
        THEN [found |-> TRUE, backspace_count |-> StrLen(s.trigger),
              output |-> apply_case(buffer, s.replacement, s.case_mode),
              include_trigger_key |-> FALSE]
        ELSE IF is_word_boundary
        THEN [found |-> TRUE, backspace_count |-> StrLen(s.trigger),
              output |-> BoundaryOutput(s, buffer, key_char),
              include_trigger_key |-> TRUE]
        ELSE NoMatch

\* The arguments of a try_match call; asked is set once the call has been
\* made on the current table.
Query(buffer, key_char, is_word_boundary) ==
    [asked |-> FALSE, buffer |-> buffer, key_char |-> key_char,
     is_word_boundary |-> is_word_boundary]

NoQuery == Query(<<>>, NoChar, FALSE)

InitTable(t, sorted, q) ==
    /\ table = t
    /\ sorted_triggers = sorted
    /\ query = q
    /\ matched = NoMatch
    /\ nops = 0
    /\ table_op = "new"

\* ------------------------------------------------------------------------
\* engine::syllable (the parser) and engine::validation (the validator)
\* ------------------------------------------------------------------------

\* The keys of buffer_keys at the positions of an index vector.
KeysAt(keys, idx) == [i \in 1..Len(idx) |-> keys[idx[i]]]

\* The positions from..to, in order (empty when to < from).
Span(from, to) == [i \in 1..(IF to < from THEN 0 ELSE to - from + 1) |-> from + i - 1]

\* The length of the longest run of keys satisfying `vowel = is_vowel(key)`
\* that starts at position pos.
RECURSIVE RunLen(_, _, _)
RunLen(keys, pos, vowel) ==
    IF pos > Len(keys) \/ is_vowel(keys[pos]) # vowel \/ ~is_letter(keys[pos]) THEN 0
    ELSE 1 + RunLen(keys, pos + 1, vowel)

\* syllable::parse, step 1: the length of the initial. It is the longest
\* prefix of consonant letters, three at most; g,i before a vowel and q,u are
\* initials of their own.
InitialLen(keys) ==
    IF Len(keys) >= 3 /\ keys[1] = "g" /\ keys[2] = "i" /\ is_vowel(keys[3]) THEN 2
    ELSE IF Len(keys) >= 2 /\ keys[1] = "q" /\ keys[2] = "u" THEN 2
    ELSE Min(RunLen(keys, 1, FALSE), 3)

\* syllable::parse, step 2: after the initial qu or gi the next vowel is the
\* glide when the nucleus goes on behind it; 0 stands for no glide.
GlidePos(keys, n) ==
    IF /\ n = 2
       /\ <<keys[1], keys[2]>> \in {<<"q", "u">>, <<"g", "i">>}
       /\ RunLen(keys, n + 1, TRUE) >= 2
    THEN n + 1 ELSE 0

\* syllable::parse: initial, glide, vowel nucleus and final as index vectors.
parse(keys) ==
    LET n == InitialLen(keys)
        g == GlidePos(keys, n)
        v == IF g = 0 THEN n + 1 ELSE n + 2
        nv == RunLen(keys, v, TRUE)
        nf == RunLen(keys, v + nv, FALSE)
    IN  [initial |-> Span(1, n), glide |-> g, vowel |-> Span(v, v + nv - 1),
         final_c |-> Span(v + nv, v + nv + nf - 1)]

\* Syllable::is_empty
syllable_is_empty(syllable) == Len(syllable.vowel) = 0

\* ValidationResult, and Option::None of a rule
VALID == "Valid"
INVALID_INITIAL == "InvalidInitial"
INVALID_FINAL == "InvalidFinal"
INVALID_SPELLING == "InvalidSpelling"
NO_VOWEL == "NoVowel"
RULE_OK == "ok"

VALID_INITIALS_1 ==
    {"b", "c", "d", "g", "h", "k", "l", "m", "n", "p", "q", "r", "s", "t", "v", "x"}

VALID_INITIALS_2 ==
    {<<"c", "h">>, <<"g", "h">>, <<"g", "i">>, <<"k", "h">>, <<"n", "g">>, <<"n", "h">>,
     <<"p", "h">>, <<"q", "u">>, <<"t", "h">>, <<"t", "r">>}

VALID_FINALS_1 == {"c", "m", "n", "p", "t", "i", "y", "o", "u"}

VALID_FINALS_2 == {<<"c", "h">>, <<"n", "g">>, <<"n", "h">>}

\* (consonant, invalid vowels)
SPELLING_RULES ==
    {<<(<<"c">>), {"e", "i", "y"}>>,
     <<(<<"k">>), {"a", "o", "u"}>>,
     <<(<<"g">>), {"e"}>>,
     <<(<<"n", "g">>), {"e", "i"}>>,
     <<(<<"g", "h">>), {"a", "o", "u"}>>,
     <<(<<"n", "g", "h">>), {"a", "o", "u"}>>}

\* Rule 1: must have at least one vowel
rule_has_vowel(keys, syllable) ==
    IF syllable_is_empty(syllable) THEN NO_VOWEL ELSE RULE_OK

\* Rule 2: the initial consonant must be valid Vietnamese
rule_valid_initial(keys, syllable) ==
    LET initial == KeysAt(keys, syllable.initial)
        is_valid == IF Len(initial) = 1 THEN initial[1] \in VALID_INITIALS_1
                    ELSE IF Len(initial) = 2 THEN initial \in VALID_INITIALS_2
                    ELSE IF Len(initial) = 3 THEN initial = <<"n", "g", "h">>
                    ELSE FALSE
    IN  IF Len(syllable.initial) = 0 THEN RULE_OK
        ELSE IF ~is_valid THEN INVALID_INITIAL
        ELSE RULE_OK

\* Rule 3: all characters must be parsed into the syllable structure
rule_all_chars_parsed(keys, syllable) ==
    LET parsed == Len(syllable.initial) + (IF syllable.glide = 0 THEN 0 ELSE 1)
                    + Len(syllable.vowel) + Len(syllable.final_c)
    IN  IF parsed # Len(keys) THEN INVALID_FINAL ELSE RULE_OK

\* A spelling check that knows no rule for the initials of several letters.
SpellingViolatedSingles(initial, first_vowel) ==
    \E r \in SPELLING_RULES : Len(r[1]) = 1 /\ initial = r[1] /\ first_vowel \in r[2]

\* Rule 4, the loop over SPELLING_RULES
SpellingViolated(initial, first_vowel) ==
    \E r \in SPELLING_RULES : initial = r[1] /\ first_vowel \in r[2]

\* Rule 4: Vietnamese spelling rules (c/k, g/gh, ng/ngh)
rule_spelling(keys, syllable) ==
    IF Len(syllable.initial) = 0 \/ Len(syllable.vowel) = 0 THEN RULE_OK
    ELSE LET initial == KeysAt(keys, syllable.initial)
             first_vowel == keys[IF syllable.glide # 0 THEN syllable.glide
                                 ELSE syllable.vowel[1]]
         IN  IF SpellingViolated(initial, first_vowel) THEN INVALID_SPELLING ELSE RULE_OK

\* Rule 5: the final consonant must be valid
rule_valid_final(keys, syllable) ==
    LET final_c == KeysAt(keys, syllable.final_c)
        is_valid == IF Len(final_c) = 1 THEN final_c[1] \in VALID_FINALS_1
                    ELSE IF Len(final_c) = 2 THEN final_c \in VALID_FINALS_2
                    ELSE FALSE
    IN  IF Len(syllable.final_c) = 0 THEN RULE_OK
        ELSE IF ~is_valid THEN INVALID_FINAL
        ELSE RULE_OK

\* The rules in the order of RULES, by name
RULES == <<"has_vowel", "valid_initial", "all_chars_parsed", "spelling", "valid_final">>

\* The call of one rule of RULES
Rule(name, keys, syllable) ==
    CASE name = "has_vowel" -> rule_has_vowel(keys, syllable)
      [] name = "valid_initial" -> rule_valid_initial(keys, syllable)
      [] name = "all_chars_parsed" -> rule_all_chars_parsed(keys, syllable)
      [] name = "spelling" -> rule_spelling(keys, syllable)
      [] name = "valid_final" -> rule_valid_final(keys, syllable)

\* validate's loop from rule i of the list on: the first error, else Valid.
RECURSIVE RunRulesFrom(_, _, _, _)
RunRulesFrom(rules, keys, syllable, i) ==
    IF i > Len(rules) THEN VALID
    ELSE IF Rule(rules[i], keys, syllable) # RULE_OK THEN Rule(rules[i], keys, syllable)
    ELSE RunRulesFrom(rules, keys, syllable, i + 1)

\* A loop that asks for the initial before it asks for a vowel.
RunRulesInitialFirst(keys, syllable) ==
    RunRulesFrom(<<"valid_initial", "has_vowel", "all_chars_parsed", "spelling",
                   "valid_final">>, keys, syllable, 1)

\* validate's loop over RULES
RunRules(keys, syllable) == RunRulesFrom(RULES, keys, syllable, 1)

\* validation::validate
validate(buffer_keys) ==
    IF Len(buffer_keys) = 0 THEN NO_VOWEL
    ELSE RunRules(buffer_keys, parse(buffer_keys))

\* validation::is_valid
is_valid(buffer_keys) == validate(buffer_keys) = VALID

\* No validate call yet on the current letters
NOT_VALIDATED == "none"

InitValidator(w) ==
    /\ word = w
    /\ verdict = NOT_VALIDATED

\* ------------------------------------------------------------------------
\* config (the configuration and its file)
\* ------------------------------------------------------------------------

\* Config
Config(en, mode) == [enabled |-> en, mode |-> mode]

\* Config::default
ConfigDefault == Config(TRUE, TELEX)

\* The states of the file at config_path: no file, a file that cannot be read,
\* a file that is no TOML, and a TOML file with some of the keys (and maybe a
\* key the program does not know).
NoFile == [kind |-> "absent"]

Unreadable == [kind |-> "unreadable"]

Garbage == [kind |-> "garbage"]

Toml(has_enabled, en, has_mode, mode, extra) ==
    [kind |-> "toml", has_enabled |-> has_enabled, enabled |-> has_enabled /\ en,
     has_mode |-> has_mode, mode |-> IF has_mode THEN mode ELSE TELEX, extra |-> extra]

\* fs::read_to_string succeeds
ReadOk(file) == file.kind \in {"toml", "garbage"}

\* toml::from_str succeeds: the text is TOML and holds every field of Config
\* (a key that is no field is skipped).
FromStrOk(file) == file.kind = "toml" /\ file.has_enabled /\ file.has_mode

\* A load that falls back to an all-zero configuration.
ConfigLoadZeroed(file) ==
    IF ReadOk(file) /\ FromStrOk(file) THEN Config(file.enabled, file.mode)
    ELSE Config(FALSE, TELEX)

\* Config::load
ConfigLoad(file) ==
    IF ReadOk(file) /\ FromStrOk(file) THEN Config(file.enabled, file.mode)
    ELSE ConfigDefault

\* toml::to_string_pretty of a configuration, as a file
Written(c) == Toml(TRUE, c.enabled, TRUE, c.mode, FALSE)

\* The file after Config::save: written on success; on failure as it was
\* (the directory or the file could not be created) or cut short by the
\* failed write (empty, or the beginning of the text).
ConfigSave(c, file, ok) ==
    IF ok THEN {Written(c)}
    ELSE {file, Toml(FALSE, FALSE, FALSE, TELEX, FALSE), Garbage}

\* The last call: its name, the file and the configuration in memory before
\* it, and whether it succeeded.
ConfigCall(op, file, before, ok) == [op |-> op, file |-> file, before |-> before, ok |-> ok]

InitConfig(file) ==
    /\ cfg_file = file
    /\ config = ConfigDefault
    /\ cfg_call = ConfigCall("none", file, ConfigDefault, TRUE)

\* ------------------------------------------------------------------------
\* engine.rs and lib.rs: the string conversion behind the FFI process_input
\* ------------------------------------------------------------------------

\* The vowels and the mark letters of convert_telex, the mark digits of
\* convert_vni.
TableVowels == {"a", "e", "i", "o", "u", "y"}

TelexMarkOf == [k \in {"s", "f", "r", "x", "j"} |->
                   CASE k = "s" -> ACUTE [] k = "f" -> GRAVE [] k = "r" -> HOOK
                     [] k = "x" -> TILDE [] k = "j" -> DOT]

VniMarkOf == [k \in {"1", "2", "3", "4", "5"} |->
                 CASE k = "1" -> ACUTE [] k = "2" -> GRAVE [] k = "3" -> HOOK
                   [] k = "4" -> TILDE [] k = "5" -> DOT]

\* convert_telex: the whole text must be one of the two-letter entries, in
\* lower case; NoChar is Option::None.
convert_telex(input) ==
    CASE input = Str(<<"a", "w">>) -> Ch("a", FALSE, BREVE, MARK_NONE)
      [] input = Str(<<"a", "a">>) -> Ch("a", FALSE, CIRCUMFLEX, MARK_NONE)
      [] input = Str(<<"e", "e">>) -> Ch("e", FALSE, CIRCUMFLEX, MARK_NONE)
      [] input = Str(<<"o", "o">>) -> Ch("o", FALSE, CIRCUMFLEX, MARK_NONE)
      [] input = Str(<<"o", "w">>) -> Ch("o", FALSE, HORN, MARK_NONE)
      [] input = Str(<<"u", "w">>) -> Ch("u", FALSE, HORN, MARK_NONE)
      [] input = Str(<<"d", "d">>) -> Ch("d", FALSE, STROKE, MARK_NONE)
      [] /\ Len(input) = 2
         /\ input[1] \in {Lit(v) : v \in TableVowels}
         /\ input[2] \in {Lit(t) : t \in DOMAIN TelexMarkOf}
            -> Ch(input[1].k, FALSE, TONE_NONE, TelexMarkOf[input[2].k])
      [] OTHER -> NoChar

\* convert_vni
convert_vni(input) ==
    CASE input = Str(<<"a", "8">>) -> Ch("a", FALSE, BREVE, MARK_NONE)
      [] input = Str(<<"a", "6">>) -> Ch("a", FALSE, CIRCUMFLEX, MARK_NONE)
      [] input = Str(<<"e", "6">>) -> Ch("e", FALSE, CIRCUMFLEX, MARK_NONE)
      [] input = Str(<<"o", "6">>) -> Ch("o", FALSE, CIRCUMFLEX, MARK_NONE)
      [] input = Str(<<"o", "7">>) -> Ch("o", FALSE, HORN, MARK_NONE)
      [] input = Str(<<"u", "7">>) -> Ch("u", FALSE, HORN, MARK_NONE)
      [] input = Str(<<"d", "9">>) -> Ch("d", FALSE, STROKE, MARK_NONE)
      [] /\ Len(input) = 2
         /\ input[1] \in {Lit(v) : v \in TableVowels}
         /\ input[2] \in {Lit(t) : t \in DOMAIN VniMarkOf}
            -> Ch(input[1].k, FALSE, TONE_NONE, VniMarkOf[input[2].k])
      [] OTHER -> NoChar

\* The loop of process_telex from the i-th character on: the character joins
\* the pending text; a pending text that is a table entry is converted and
\* emptied, one longer than three gives up its first character. The inputs of
\* the model are ASCII, so String::len counts their characters.
RECURSIVE TelexLoop(_, _, _, _)
TelexLoop(input, i, out, buffer) ==
    IF i > Len(input) THEN out \o buffer
    ELSE LET pushed == Append(buffer, input[i])
             viet_char == convert_telex(pushed)
         IN IF viet_char # NoChar THEN TelexLoop(input, i + 1, Append(out, viet_char), <<>>)
            ELSE IF Len(pushed) > 3
                 THEN TelexLoop(input, i + 1, Append(out, Head(pushed)), Tail(pushed))
                 ELSE TelexLoop(input, i + 1, out, pushed)

\* process_telex
process_telex(input) == TelexLoop(input, 1, <<>>, <<>>)

\* The loop of process_vni: as for Telex, with a pending text of at most two.
RECURSIVE VniLoop(_, _, _, _)
VniLoop(input, i, out, buffer) ==
    IF i > Len(input) THEN out \o buffer
    ELSE LET pushed == Append(buffer, input[i])
             viet_char == convert_vni(pushed)
         IN IF viet_char # NoChar THEN VniLoop(input, i + 1, Append(out, viet_char), <<>>)
            ELSE IF Len(pushed) > 2
                 THEN VniLoop(input, i + 1, Append(out, Head(pushed)), Tail(pushed))
                 ELSE VniLoop(input, i + 1, out, pushed)

\* process_vni
process_vni(input) == VniLoop(input, 1, <<>>, <<>>)

\* process_input: mode 0 is Telex, mode 1 is VNI, any other mode copies.
process_input(input, mode) ==
    IF mode = 0 THEN process_telex(input)
    ELSE IF mode = 1 THEN process_vni(input)
    ELSE input

\* Before any call of process_input.
InitProcess ==
    /\ pi_input = <<>>
    /\ pi_mode = 0
    /\ pi_output = <<>>

\* ------------------------------------------------------------------------
\* keyboard.rs: the global hook
\* ------------------------------------------------------------------------

\* The application threads that call start_hook and stop_hook.
Callers == 1..NumCallers

\* Before any call of start: no hook, no thread inside start, no listener.
InitHook ==
    /\ RUNNING = FALSE
    /\ pc = [c \in Callers |-> "idle"]
    /\ listeners = <<>>
    /\ stops = 0
    /\ presses = 0
    /\ calls = <<>>
    /\ hook_calls = 0

\* ------------------------------------------------------------------------
\* The state machine: one engine and the host text it edits
\* ------------------------------------------------------------------------

\* The engine record of the current state.
Eng ==
    [buf |-> buf, method |-> method, enabled |-> enabled, modern |-> modern,
     last_transform |-> last_transform]

\* The engine variables take the fields of e.
EngineBecomes(e) ==
    /\ buf' = e.buf
    /\ method' = e.method
    /\ enabled' = e.enabled
    /\ modern' = e.modern
    /\ last_transform' = e.last_transform

Call(op, key, caps, ctrl) ==
    [op |-> op, key |-> key, caps |-> caps, ctrl |-> ctrl, held |-> Len(host),
     had |-> Len(buf), was_enabled |-> enabled, memo |-> last_transform]

\* One key event: the engine handles the key, the host applies the result.
DoKey(key, caps, ctrl) ==
    LET o == on_key(Eng, key, caps, ctrl)
    IN  /\ EngineBecomes(o.e)
        /\ result' = o.r
        /\ host' = HostApply(host, key, caps, ctrl, o.r)
        /\ net' = net + NetOf(host, key, caps, ctrl, o.r)
        /\ nkeys' = nkeys + 1
        /\ last_call' = Call("on_key", key, caps, ctrl)

\* A configuration call: the host text and the last result stay.
DoConfig(op, e) ==
    /\ nkeys < MaxKeys
    /\ EngineBecomes(e)
    /\ last_call' = Call(op, "none", FALSE, FALSE)
    /\ nkeys' = nkeys + 1
    /\ UNCHANGED <<host, result, net>>

FreeCase == [kind |-> "free"]

\* The keys of a free run, the ones also pressed with caps, and the ones
\* pressed with ctrl held (a letter, a break key and delete).
FreeKeys == {"a", "o", "d", "n", "s", "w", "z", "1", "6", "9", "space", "tab", DELETE}

CapsKeys == {"a", "d", "s"}

CtrlKeys == {"a", "space", DELETE}

InitEngine(e) ==
    /\ buf = e.buf
    /\ method = e.method
    /\ enabled = e.enabled
    /\ modern = e.modern
    /\ last_transform = e.last_transform
    /\ host = <<>>
    /\ result = ResultNone
    /\ last_call = [op |-> "new", key |-> "none", caps |-> FALSE, ctrl |-> FALSE,
                    held |-> 0, had |-> 0, was_enabled |-> e.enabled,
                    memo |-> e.last_transform]
    /\ nkeys = 0
    /\ net = 0

Init ==
    /\ InitEngine(NewEngine)
    /\ script = <<>>
    /\ case = FreeCase
    /\ InitTable(EmptyTable, <<>>, NoQuery)
    /\ InitValidator(<<>>)
    /\ InitConfig(NoFile)
    /\ InitProcess
    /\ InitHook

PressKey ==
    /\ nkeys < MaxKeys
    /\ \E key \in FreeKeys, caps \in BOOLEAN :
          /\ caps => key \in CapsKeys
          /\ DoKey(key, caps, FALSE)
    /\ UNCHANGED <<script, case>>
    /\ UNCHANGED <<tvars, vvars, cvars, pvars, hvars>>

PressCtrlKey ==
    /\ nkeys < MaxKeys
    /\ \E key \in CtrlKeys : DoKey(key, FALSE, TRUE)
    /\ UNCHANGED <<script, case>>
    /\ UNCHANGED <<tvars, vvars, cvars, pvars, hvars>>

SetEnabled ==
    /\ \E en \in BOOLEAN : DoConfig("set_enabled", set_enabled(Eng, en))
    /\ UNCHANGED <<script, case>>
    /\ UNCHANGED <<tvars, vvars, cvars, pvars, hvars>>

SetMethod ==
    /\ \E m \in {TELEX, VNI} : DoConfig("set_method", set_method(Eng, m))
    /\ UNCHANGED <<script, case>>
    /\ UNCHANGED <<tvars, vvars, cvars, pvars, hvars>>

SetModern ==
    /\ \E m \in BOOLEAN : DoConfig("set_modern", set_modern(Eng, m))
    /\ UNCHANGED <<script, case>>
    /\ UNCHANGED <<tvars, vvars, cvars, pvars, hvars>>

Clear ==
    /\ DoConfig("clear", clear(Eng))
    /\ UNCHANGED <<script, case>>
    /\ UNCHANGED <<tvars, vvars, cvars, pvars, hvars>>

Next == PressKey \/ PressCtrlKey \/ SetEnabled \/ SetMethod \/ SetModern \/ Clear

Spec == Init /\ [][Next]_vars

\* ------------------------------------------------------------------------
\* Scripted runs: a fresh engine is configured and fed one key sequence
\* ------------------------------------------------------------------------

\* The key events of a sequence of key names, typed without caps.
K(names) == [i \in 1..Len(names) |-> [key |-> names[i], caps |-> FALSE]]

MarkKeysOf(m) == IF m = TELEX THEN {"s", "f", "r", "x", "j"} ELSE {"1", "2", "3", "4", "5"}

RunCase(kind, m, mod, keys, peer) ==
    [kind |-> kind, method |-> m, modern |-> mod, keys |-> keys, peer |-> peer]

\* A vowel, a mark trigger, the same trigger again.
RevertCases ==
    {RunCase("revert", m, TRUE,
             <<[key |-> v, caps |-> cv], [key |-> t, caps |-> FALSE], [key |-> t, caps |-> ct]>>,
             <<>>) :
        m \in {TELEX}, v \in VowelKeys, t \in MarkKeysOf(TELEX), cv \in BOOLEAN, ct \in BOOLEAN}
    \cup
    {RunCase("revert", m, TRUE,
             <<[key |-> v, caps |-> cv], [key |-> t, caps |-> FALSE], [key |-> t, caps |-> ct]>>,
             <<>>) :
        m \in {VNI}, v \in VowelKeys, t \in MarkKeysOf(VNI), cv \in BOOLEAN, ct \in BOOLEAN}

GlidePairs == {<<"o", "a">>, <<"o", "e">>, <<"u", "y">>, <<"u", "a">>, <<"u", "e">>}

\* An initial consonant, a glide+vowel pair, a mark trigger (Telex).
GlideCases ==
    {RunCase("glide", TELEX, mod, K(<<c, p[1], p[2], t>>), <<>>) :
        mod \in BOOLEAN, c \in {"h", "t"}, p \in GlidePairs, t \in MarkKeysOf(TELEX)}

\* t o a f n (Telex)
ToanCases == {RunCase("toan", TELEX, mod, K(<<"t", "o", "a", "f", "n">>), <<>>) : mod \in BOOLEAN}

\* g u s t a <space> (Telex)
GustaCases == {RunCase("gusta", TELEX, TRUE, K(<<"g", "u", "s", "t", "a", "space">>), <<>>)}

\* v n <space> (Telex)
VnCases == {RunCase("vn", TELEX, TRUE, K(<<"v", "n", "space">>), <<>>)}

\* The words of the parity table: the Telex keys and the VNI keys of each.
ParityTable ==
    {<<K(<<"c", "h", "a", "o", "f">>), K(<<"c", "h", "a", "o", "2">>)>>,
     <<K(<<"d", "d", "u", "w", "o", "w", "c", "j">>), K(<<"d", "9", "u", "7", "o", "7", "c", "5">>)>>,
     <<K(<<"n", "g", "u", "w", "o", "w", "i", "f">>), K(<<"n", "g", "u", "7", "o", "7", "i", "2">>)>>,
     <<K(<<"h", "o", "c", "j">>), K(<<"h", "o", "5", "c">>)>>,
     <<K(<<"m", "o", "o", "t", "j">>), K(<<"m", "o", "6", "5", "t">>)>>,
     <<K(<<"b", "i", "e", "e", "t", "s">>), K(<<"b", "i", "e", "6", "1", "t">>)>>,
     <<K(<<"n", "u", "w", "o", "w", "c", "s">>), K(<<"n", "u", "7", "o", "7", "1", "c">>)>>,
     <<K(<<"m", "u", "w", "o", "w", "i", "f">>), K(<<"m", "u", "7", "o", "7", "i", "2">>)>>,
     <<K(<<"t", "o", "o", "t", "s">>), K(<<"t", "o", "6", "1", "t">>)>>,
     <<K(<<"g", "o", "o", "x">>), K(<<"g", "o", "6", "4">>)>>,
     <<K(<<"h", "o", "w", "n">>), K(<<"h", "o", "7", "n">>)>>,
     <<K(<<"d", "d", "e", "p", "j">>), K(<<"d", "9", "e", "5", "p">>)>>,
     <<K(<<"u", "o", "o", "n", "g", "s">>), K(<<"u", "o", "6", "1", "n", "g">>)>>,
     <<K(<<"n", "h", "o", "w", "s">>), K(<<"n", "h", "o", "7", "1">>)>>,
     <<K(<<"n", "g", "u", "o", "o", "n", "f">>), K(<<"n", "g", "u", "o", "6", "2", "n">>)>>,
     <<K(<<"c", "h", "a", "y", "r">>), K(<<"c", "h", "a", "3", "y">>)>>,
     <<K(<<"d", "d", "a", "s">>), K(<<"d", "9", "a", "1">>)>>,
     <<K(<<"m", "o", "n", "f">>), K(<<"m", "o", "2", "n">>)>>}

ParityCases ==
    {RunCase("parity", TELEX, mod, w[1], w[2]) : mod \in BOOLEAN, w \in ParityTable}
    \cup {RunCase("parity", VNI, mod, w[2], w[1]) : mod \in BOOLEAN, w \in ParityTable}

\* The script step that stands for a call of clear().
CLEAR_CALL == "clear()"

\* A word, a dot, a space and a letter; then that letter deleted
\* and another one typed.
SentenceCases ==
    {RunCase("sentence", TELEX, TRUE, K(<<"o", "k", "dot", "space", "b">>), <<>>),
     RunCase("sentence", TELEX, TRUE,
             K(<<"o", "k", "dot", "space", "b", DELETE, "c">>), <<>>)}

\* x i n <return> d
EnterCases == {RunCase("enter", TELEX, TRUE, K(<<"x", "i", "n", "return", "d">>), <<>>)}

\* A marked vowel, then a navigation key; and four arrows between the space
\* after a sentence and the next letter.
NavigationCases ==
    {RunCase("navigation", TELEX, TRUE, K(<<"a", "s", nav>>), <<>>) :
        nav \in ArrowKeys \cup {"tab"}}
    \cup {RunCase("navigation", TELEX, TRUE,
                  K(<<"o", "k", "dot", "space", "left", "right", "up", "down", "c">>), <<>>)}

\* o k . <space> b a n, clear(), c
ClearCases ==
    {RunCase("clear", TELEX, TRUE,
             K(<<"o", "k", "dot", "space", "b", "a", "n", CLEAR_CALL, "c">>), <<>>)}

\* A marked vowel, then a key code outside the key table.
OtherKeyCases == {RunCase("other", m, TRUE, K(<<"a", t, OTHER_KEY>>), <<>>) :
                     m \in {TELEX}, t \in MarkKeysOf(TELEX)}

\* q u a s, q u i s, g i a s (Telex)
OnsetCases ==
    {RunCase("onset", TELEX, mod, K(w), <<>>) :
        mod \in BOOLEAN,
        w \in {<<"q", "u", "a", "s">>, <<"q", "u", "i", "s">>, <<"g", "i", "a", "s">>}}

\* The mark key right after the first vowel, or after the later letters.
OrderCases ==
    {RunCase("order", TELEX, TRUE, K(<<"m", "i", "a", "s">>), K(<<"m", "i", "s", "a">>)),
     RunCase("order", TELEX, TRUE, K(<<"m", "i", "s", "a">>), K(<<"m", "i", "a", "s">>)),
     RunCase("order", TELEX, TRUE,
             K(<<"k", "i", "a", "s", "n">>), K(<<"k", "i", "s", "n", "a">>)),
     RunCase("order", TELEX, TRUE,
             K(<<"k", "i", "s", "n", "a">>), K(<<"k", "i", "a", "s", "n">>))}

\* A tone trigger, then the same key again; with one and with two modified
\* vowels in the buffer.
ToneRevertCases ==
    {RunCase("tone_revert", TELEX, TRUE, K(w), <<>>) :
        w \in {<<"a", "a", "a">>, <<"a", "w", "w">>, <<"o", "o", "o">>,
               <<"u", "w", "a", "a", "a">>, <<"a", "o", "w", "a", "a">>}}
    \cup {RunCase("tone_revert", VNI, TRUE, K(w), <<>>) :
        w \in {<<"a", "6", "6">>, <<"u", "7", "a", "6", "6">>, <<"a", "o", "7", "8", "8">>}}

\* Marks and tone modifiers, then the remove trigger.
RemoveCases ==
    {RunCase("remove", TELEX, TRUE, K(w), <<>>) :
        w \in {<<"a", "s", "z">>, <<"a", "a", "z">>, <<"a", "a", "s", "z">>,
               <<"u", "w", "a", "s", "z">>, <<"a", "o", "s", "o", "z">>}}
    \cup {RunCase("remove", VNI, TRUE, K(w), <<>>) :
        w \in {<<"a", "1", "0">>, <<"a", "6", "1", "0">>, <<"a", "o", "1", "6", "0">>}}

\* A buffered d, typed with or without caps after nothing or after a vowel,
\* then the stroke trigger (Telex d, VNI 9) with or without caps.
StrokeCases ==
    {RunCase("stroke", TELEX, TRUE,
             K(p) \o <<[key |-> "d", caps |-> cd], [key |-> "d", caps |-> ct]>>, <<>>) :
        p \in {<<>>, <<"a">>}, cd \in BOOLEAN, ct \in BOOLEAN}
    \cup {RunCase("stroke", VNI, TRUE,
                  K(p) \o <<[key |-> "d", caps |-> cd], [key |-> "9", caps |-> ct]>>, <<>>) :
        p \in {<<>>, <<"a">>}, cd \in BOOLEAN, ct \in BOOLEAN}

\* MAX consonants, one more letter, a mark key.
OverflowCases ==
    {RunCase("overflow", TELEX, TRUE, K([i \in 1..MAX |-> c] \o <<x, "s">>), <<>>) :
        c \in {"n", "b"}, x \in {"a", "m"}}

\* A vowel and MAX - 1 consonants, a mark key, the same mark key again.
FullRevertCases ==
    {RunCase("full_revert", m, TRUE,
             K(<<"a">> \o [i \in 1..(MAX - 1) |-> "n"] \o <<t, t>>), <<>>) :
        m \in {TELEX}, t \in {"s", "j"}}

RunCases ==
    RevertCases \cup GlideCases \cup ToanCases \cup GustaCases \cup VnCases \cup ParityCases
    \cup SentenceCases \cup EnterCases \cup NavigationCases \cup ClearCases
    \cup OtherKeyCases \cup OnsetCases \cup OrderCases \cup ToneRevertCases \cup RemoveCases
    \cup StrokeCases \cup OverflowCases \cup FullRevertCases

InitRun ==
    \E c \in RunCases :
        /\ case = c
        /\ script = c.keys
        /\ InitEngine(set_modern(set_method(NewEngine, c.method), c.modern))
        /\ InitTable(EmptyTable, <<>>, NoQuery)
        /\ InitValidator(<<>>)
        /\ InitConfig(NoFile)
        /\ InitProcess
        /\ InitHook

\* The next step of the script: a key is typed, or clear() is called.
TypeScript ==
    /\ case.kind # "free"
    /\ nkeys < Len(script)
    /\ IF script[nkeys + 1].key = CLEAR_CALL
       THEN /\ EngineBecomes(clear(Eng))
            /\ last_call' = Call("clear", "none", FALSE, FALSE)
            /\ nkeys' = nkeys + 1
            /\ UNCHANGED <<host, result, net>>
       ELSE DoKey(script[nkeys + 1].key, script[nkeys + 1].caps, FALSE)
    /\ UNCHANGED <<script, case>>
    /\ UNCHANGED <<tvars, vvars, cvars, pvars, hvars>>

SpecRun == InitRun /\ [][TypeScript]_vars

\* The script has been typed to its end.
RunDone == case.kind # "free" /\ nkeys = Len(script)

\* The host text a fresh engine of method m leaves after the keys from i on.
RECURSIVE RunFrom(_, _, _, _)
RunFrom(e, h, keys, i) ==
    IF i > Len(keys) THEN h
    ELSE LET o == on_key(e, keys[i].key, keys[i].caps, FALSE)
         IN RunFrom(o.e, HostApply(h, keys[i].key, keys[i].caps, FALSE, o.r), keys, i + 1)

RunKeys(m, mod, keys) == RunFrom(set_modern(set_method(NewEngine, m), mod), <<>>, keys, 1)

\* ------------------------------------------------------------------------
\* Mark placement runs: a nucleus is typed in VNI, then a mark key
\* ------------------------------------------------------------------------

\* The VNI keys of each vowel, plain and with each tone modifier it can carry.
TonedVowels ==
    {<<"a">>, <<"a", "6">>, <<"a", "8">>, <<"e">>, <<"e", "6">>, <<"i">>,
     <<"o">>, <<"o", "6">>, <<"o", "7">>, <<"u">>, <<"u", "7">>, <<"y">>}

\* No final consonant, or the final consonant n.
Finals == {<<>>, <<"n">>}

\* Two vowels, a final consonant or none, the mark key 1.
PairCases ==
    {RunCase("pair", VNI, mod, K(x \o y \o f \o <<"1">>), <<>>) :
        mod \in BOOLEAN, x \in TonedVowels, y \in TonedVowels, f \in Finals}

\* Three vowels, a final consonant or none, the mark key 1.
TripleCases ==
    {RunCase("triple", VNI, mod, K(x \o y \o z \o f \o <<"1">>), <<>>) :
        mod \in BOOLEAN, x \in TonedVowels, y \in TonedVowels, z \in TonedVowels,
        f \in Finals}

PlaceCases == PairCases \cup TripleCases

InitPlace ==
    \E c \in PlaceCases :
        /\ case = c
        /\ script = c.keys
        /\ InitEngine(set_modern(set_method(NewEngine, c.method), c.modern))
        /\ InitTable(EmptyTable, <<>>, NoQuery)
        /\ InitValidator(<<>>)
        /\ InitConfig(NoFile)
        /\ InitProcess
        /\ InitHook

SpecPlace == InitPlace /\ [][TypeScript]_vars

\* ------------------------------------------------------------------------
\* The state machine of a shortcut table
\* ------------------------------------------------------------------------

Nao == <<Lit("n"), Ch("a", FALSE, TONE_NONE, GRAVE), Lit("o")>>

\* The shortcuts a user adds: built by new or immediate, then with the
\* condition, the case mode or the enabled flag set.
UserShortcuts ==
    {ShortcutNew(Str(<<"n", "t", "n">>), Nao),
     [ShortcutImmediate(Str(<<"w">>), <<Ch("u", FALSE, HORN, MARK_NONE)>>)
         EXCEPT !.case_mode = MATCH_CASE],
     [ShortcutNew(Str(<<"v", "n">>), VietNam) EXCEPT !.enabled = FALSE],
     [ShortcutNew(to_uppercase(Str(<<"d", "c">>)), Duoc) EXCEPT !.case_mode = EXACT]}

\* Every way of typing a word of key names with caps on some of its letters.
CaseVariants(names) ==
    {[i \in 1..Len(names) |-> Ch(names[i], c[i], TONE_NONE, MARK_NONE)] :
        c \in [1..Len(names) -> BOOLEAN]}

\* The buffer texts try_match and remove are called with.
QueryBuffers ==
    CaseVariants(<<"v", "n">>) \cup CaseVariants(<<"n", "t", "n">>) \cup CaseVariants(<<"w">>)
    \cup {Str(<<"d", "c">>), to_uppercase(Str(<<"d", "c">>)), Str(<<"x">>)}

InitShortcut ==
    /\ InitEngine(NewEngine)
    /\ InitValidator(<<>>)
    /\ InitConfig(NoFile)
    /\ InitProcess
    /\ InitHook
    /\ script = <<>>
    /\ case = [kind |-> "shortcut"]
    /\ \E buffer \in QueryBuffers, key_char \in {NoChar, Lit("space")}, wb \in BOOLEAN :
          \/ InitTable(EmptyTable, <<>>, Query(buffer, key_char, wb))
          \/ \E sorted \in SortedOrders(DOMAIN DefaultTable) :
                InitTable(DefaultTable, sorted, Query(buffer, key_char, wb))

\* ShortcutTable::add followed by rebuild_sorted_triggers
AddShortcut ==
    /\ nops < MaxTableOps
    /\ \E s \in UserShortcuts :
          /\ table' = MapInsert(table, s.trigger, s)
          /\ sorted_triggers' \in SortedOrders(DOMAIN table')
    /\ table_op' = "add"
    /\ nops' = nops + 1
    /\ query' = [query EXCEPT !.asked = FALSE]
    /\ matched' = NoMatch
    /\ UNCHANGED <<evars, vvars, cvars, pvars, hvars>>

\* ShortcutTable::remove
RemoveShortcut ==
    /\ nops < MaxTableOps
    /\ \E trigger \in {to_uppercase(Str(<<"v", "n">>)), Str(<<"x">>)} :
          IF to_lowercase(trigger) \in DOMAIN table
          THEN /\ table' = MapRemove(table, to_lowercase(trigger))
               /\ sorted_triggers' \in SortedOrders(DOMAIN table')
          ELSE UNCHANGED <<table, sorted_triggers>>
    /\ table_op' = "remove"
    /\ nops' = nops + 1
    /\ query' = [query EXCEPT !.asked = FALSE]
    /\ matched' = NoMatch
    /\ UNCHANGED <<evars, vvars, cvars, pvars, hvars>>

\* ShortcutTable::clear
ClearShortcuts ==
    /\ nops < MaxTableOps
    /\ table' = EmptyTable
    /\ sorted_triggers' = <<>>
    /\ table_op' = "clear"
    /\ nops' = nops + 1
    /\ query' = [query EXCEPT !.asked = FALSE]
    /\ matched' = NoMatch
    /\ UNCHANGED <<evars, vvars, cvars, pvars, hvars>>

\* ShortcutTable::try_match on the current table
TryMatch ==
    /\ query' = [query EXCEPT !.asked = TRUE]
    /\ matched' = try_match(table, sorted_triggers, query.buffer, query.key_char,
                            query.is_word_boundary)
    /\ UNCHANGED <<table, sorted_triggers, nops, table_op>>
    /\ UNCHANGED <<evars, vvars, cvars, pvars, hvars>>

NextShortcut == AddShortcut \/ RemoveShortcut \/ ClearShortcuts \/ TryMatch

SpecShortcut == InitShortcut /\ [][NextShortcut]_vars

\* ------------------------------------------------------------------------
\* The state machine of the validator: letters are typed, then validated
\* ------------------------------------------------------------------------

\* The words of the validator's tests
VALID_WORDS ==
    {<<"b", "a">>, <<"c", "a">>, <<"a", "n">>, <<"e", "m">>, <<"g", "i">>,
     <<"g", "i", "a">>, <<"g", "i", "a", "u">>, <<"k", "e">>, <<"k", "i">>,
     <<"k", "y">>, <<"n", "g", "h", "e">>, <<"n", "g", "h", "i">>,
     <<"n", "g", "h", "i", "e", "n", "g">>, <<"t", "r", "u", "o", "n", "g">>,
     <<"n", "g", "u", "o", "i">>, <<"d", "u", "o", "c">>}

INVALID_NO_VOWEL_WORDS ==
    {<<"b", "c", "d">>, <<"b", "c", "d", "f", "g", "h">>}

INVALID_INITIAL_WORDS ==
    {<<"c", "l", "a", "u">>, <<"j", "o", "h", "n">>, <<"b", "l", "a">>,
     <<"s", "t", "r", "i", "n", "g">>, <<"c", "h", "r", "o", "m", "e">>}

INVALID_SPELLING_WORDS ==
    {<<"c", "i">>, <<"c", "e">>, <<"c", "y">>, <<"k", "a">>, <<"k", "o">>,
     <<"k", "u">>, <<"n", "g", "i">>, <<"n", "g", "e">>, <<"g", "e">>}

INVALID_FOREIGN_WORDS ==
    {<<"e", "x", "p">>, <<"e", "x", "p", "e", "c", "t">>, <<"t", "e", "s", "t">>,
     <<"c", "l", "a", "u", "d", "e", "c", "o">>, <<"c", "l", "a", "u", "s">>}

\* The words a run starts from: none, or one of the tests' words.
SeedWords ==
    {<<>>} \cup VALID_WORDS \cup INVALID_NO_VOWEL_WORDS \cup INVALID_INITIAL_WORDS
           \cup INVALID_SPELLING_WORDS \cup INVALID_FOREIGN_WORDS

\* The letters typed after them: the vowels and the consonants of the
\* spelling rules, a final (t) and a letter that is no initial (j).
ValidatorKeys == {"a", "e", "i", "o", "u", "c", "g", "h", "k", "n", "t", "j"}

InitValidate ==
    /\ InitEngine(NewEngine)
    /\ script = <<>>
    /\ case = [kind |-> "validator"]
    /\ InitTable(EmptyTable, <<>>, NoQuery)
    /\ \E w \in SeedWords : InitValidator(w)
    /\ InitConfig(NoFile)
    /\ InitProcess
    /\ InitHook

\* One more letter reaches the buffer the validator will be given.
TypeLetter ==
    /\ Len(word) < MaxWordLen
    /\ \E key \in ValidatorKeys : word' = Append(word, key)
    /\ verdict' = NOT_VALIDATED
    /\ UNCHANGED <<evars, tvars, cvars, pvars, hvars>>

\* validation::validate on the letters typed so far
Validate ==
    /\ verdict' = validate(word)
    /\ UNCHANGED word
    /\ UNCHANGED <<evars, tvars, cvars, pvars, hvars>>

NextValidate == TypeLetter \/ Validate

SpecValidate == InitValidate /\ [][NextValidate]_vars

\* ------------------------------------------------------------------------
\* The state machine of the configuration: it is loaded and saved
\* ------------------------------------------------------------------------

\* The methods a configuration names
ConfigModes == {TELEX, VNI}

\* The files the program may find at start
ConfigFiles ==
    {NoFile, Unreadable, Garbage}
    \cup {Toml(he, en, hm, m, x) : he \in BOOLEAN, en \in BOOLEAN, hm \in BOOLEAN,
                                   m \in ConfigModes, x \in BOOLEAN}

InitConfigRun ==
    /\ InitEngine(NewEngine)
    /\ script = <<>>
    /\ case = [kind |-> "config"]
    /\ InitTable(EmptyTable, <<>>, NoQuery)
    /\ InitValidator(<<>>)
    /\ \E file \in ConfigFiles : InitConfig(file)
    /\ InitProcess
    /\ InitHook

\* load_config
LoadConfig ==
    /\ config' = ConfigLoad(cfg_file)
    /\ cfg_call' = ConfigCall("load", cfg_file, config, TRUE)
    /\ UNCHANGED cfg_file
    /\ UNCHANGED <<evars, tvars, vvars, pvars, hvars>>

\* save_config(enabled, mode): the configuration it is given is saved; the one
\* in memory is not touched.
SaveConfig ==
    /\ \E en \in BOOLEAN, mode \in ConfigModes, ok \in BOOLEAN :
          /\ cfg_file' \in ConfigSave(Config(en, mode), cfg_file, ok)
          /\ cfg_call' = ConfigCall("save", cfg_file, config, ok)
    /\ UNCHANGED config
    /\ UNCHANGED <<evars, tvars, vvars, pvars, hvars>>

NextConfig == LoadConfig \/ SaveConfig

SpecConfig == InitConfigRun /\ [][NextConfig]_vars

\* ------------------------------------------------------------------------
\* Properties
\* ------------------------------------------------------------------------

\* C1: on_key with ctrl held, or while the engine is disabled, returns None
\* and leaves the buffer empty; set_enabled(false) empties the buffer.
C1_PassThrough ==
    /\ (last_call.op = "on_key" /\ (last_call.ctrl \/ ~last_call.was_enabled))
          => (result.action = ACTION_NONE /\ buf = <<>>)
    /\ (last_call.op = "set_enabled" /\ ~enabled) => buf = <<>>

\* A ctrl key pressed on a non-empty buffer.
C1_Witness ==
    /\ last_call.op = "on_key" /\ last_call.ctrl /\ last_call.was_enabled
    /\ last_call.had > 0
    /\ buf = <<>>

\* C2: a vowel v, a mark trigger t of the method and t again leave the host
\* text equal to the two literal characters v, t, and the buffered vowel
\* carries no mark.
C2_RevertRoundTrip ==
    (case.kind = "revert" /\ RunDone) =>
        /\ host = <<Ch(script[1].key, script[1].caps, TONE_NONE, MARK_NONE),
                    Ch(script[3].key, script[3].caps /\ method = TELEX, TONE_NONE, MARK_NONE)>>
        /\ Len(buf) = 1
        /\ buf[1].key = script[1].key
        /\ buf[1].mark = MARK_NONE

\* The VNI run a, 1, 1 has ended with the revert's Send.
C2_Witness ==
    /\ case.kind = "revert" /\ RunDone /\ method = VNI
    /\ script = K(<<"a", "1", "1">>)
    /\ result.action = ACTION_SEND /\ result.count = 2
    /\ last_transform = NoTransform

\* C3: no Send requests more backspaces than the host holds, and the sum of
\* count - backspace over the run (a passed-through character is +1, a
\* passed-through delete of a character is -1) is the length of the host text.
C3_BackspaceArithmetic ==
    /\ (last_call.op = "on_key" /\ result.action = ACTION_SEND)
          => result.backspace <= last_call.held
    /\ net = Len(host)

\* A Send that rewrites the whole host text, two characters or more.
C3_Witness ==
    /\ last_call.op = "on_key" /\ result.action = ACTION_SEND
    /\ result.backspace >= 2 /\ result.backspace = last_call.held
    /\ net = Len(host)

C5_ToanBothPlacements ==
    (case.kind = "toan" /\ RunDone) =>
        host = <<Lit("t"), Lit("o"), Ch("a", FALSE, TONE_NONE, GRAVE), Lit("n")>>

C7_AutoRestoreInverse ==
    (case.kind = "gusta" /\ RunDone) =>
        host = <<Lit("g"), Lit("u"), Lit("s"), Lit("t"), Lit("a"), Lit("space")>>

\* C8: v, n and a space leave the host text `Việt Nam ` and the buffer empty.
C8_DefaultShortcut ==
    (case.kind = "vn" /\ RunDone) =>
        /\ host = <<Ch("v", TRUE, TONE_NONE, MARK_NONE), Lit("i"),
                    Ch("e", FALSE, CIRCUMFLEX, DOT), Lit("t"), Lit("space"),
                    Ch("n", TRUE, TONE_NONE, MARK_NONE), Lit("a"), Lit("m"), Lit("space")>>
        /\ buf = <<>>

\* The shortcut try_match has to find: the one whose trigger is the buffer
\* text up to case.
QueriedTriggers ==
    {t \in DOMAIN table :
        /\ to_lowercase(t) = to_lowercase(query.buffer)
        /\ table[t].enabled
        /\ (table[t].condition = IMMEDIATE \/ query.is_word_boundary)}

\* The typed key as try_match appends it: nothing for Option::None.
QueriedKey == IF query.key_char = NoChar THEN <<>> ELSE <<query.key_char>>

\* The replacement of shortcut s as the code adjusts its case to the typed text.
CaseAdjusted(s) ==
    IF s.case_mode = EXACT THEN s.replacement
    ELSE IF \A i \in 1..Len(query.buffer) : is_uppercase(query.buffer[i])
         THEN to_uppercase(s.replacement)
    ELSE IF is_uppercase(query.buffer[1])
         THEN <<UpperCh(s.replacement[1])>> \o Tail(s.replacement)
    ELSE s.replacement

\* C9: try_match returns a match if and only if the table holds an enabled
\* shortcut whose trigger equals the buffer text up to case and which is either
\* immediate or queried at a word boundary; the match then asks for as many
\* backspaces as the trigger is long, and its output is the case-adjusted
\* replacement, followed by the typed key exactly when the shortcut fires on a
\* word boundary.
C9_TryMatch ==
    query.asked =>
        /\ matched.found <=> QueriedTriggers # {}
        /\ \A t \in QueriedTriggers :
              /\ matched.backspace_count = Len(t)
              /\ matched.include_trigger_key = (table[t].condition = ON_WORD_BOUNDARY)
              /\ matched.output = CaseAdjusted(table[t])
                    \o (IF table[t].condition = ON_WORD_BOUNDARY THEN QueriedKey ELSE <<>>)

\* A word-boundary shortcut has matched and the typed space follows its
\* replacement, after a disabled or absent shortcut was looked up elsewhere.
C9_Witness ==
    /\ query.asked
    /\ matched.found
    /\ matched.include_trigger_key
    /\ query.key_char # NoChar
    /\ matched.backspace_count = 3
    /\ nops > 0

\* The replacement part of the last match: the output without the typed key.
MatchedReplacement ==
    IF matched.include_trigger_key /\ query.key_char # NoChar
    THEN SubSeq(matched.output, 1, Len(matched.output) - 1)
    ELSE matched.output

\* C10 (as stated): under match_case an all-upper-case typed trigger yields the
\* upper-cased replacement, a typed trigger whose first character only is
\* upper-case yields the replacement with its first character capitalised, and
\* any other typed trigger yields the replacement verbatim; under exact the
\* replacement is always verbatim.
C10_ApplyCaseFirstOnly ==
    (query.asked /\ matched.found) =>
        LET s == table[to_lowercase(query.buffer)]
            typed == query.buffer
        IN  MatchedReplacement =
              IF s.case_mode = EXACT THEN s.replacement
              ELSE IF \A i \in 1..Len(typed) : is_uppercase(typed[i])
                   THEN to_uppercase(s.replacement)
              ELSE IF /\ is_uppercase(typed[1])
                      /\ \A i \in 2..Len(typed) : ~is_uppercase(typed[i])
                   THEN <<UpperCh(s.replacement[1])>> \o Tail(s.replacement)
              ELSE s.replacement

\* C10 (amended): under match_case an all-upper-case typed trigger yields the
\* upper-cased replacement, any other typed trigger whose first character is
\* upper-case yields the replacement with its first character capitalised
\* (whatever the case of its later characters), and a typed trigger whose first
\* character is not upper-case yields the replacement verbatim; under exact the
\* replacement is always verbatim.
C10_ApplyCase ==
    (query.asked /\ matched.found) =>
        LET s == table[to_lowercase(query.buffer)]
            typed == query.buffer
        IN  MatchedReplacement =
              IF s.case_mode = EXACT THEN s.replacement
              ELSE IF \A i \in 1..Len(typed) : is_uppercase(typed[i])
                   THEN to_uppercase(s.replacement)
              ELSE IF is_uppercase(typed[1])
                   THEN <<UpperCh(s.replacement[1])>> \o Tail(s.replacement)
              ELSE s.replacement

\* A match_case shortcut matched a typed trigger with an upper-case first
\* character and a later upper-case character, though not all upper-case, and
\* the replacement came out capitalised and different from the verbatim one.
C10_Witness ==
    /\ query.asked
    /\ matched.found
    /\ table[to_lowercase(query.buffer)].case_mode = MATCH_CASE
    /\ is_uppercase(query.buffer[1])
    /\ \E i \in 2..Len(query.buffer) : is_uppercase(query.buffer[i])
    /\ \E i \in 2..Len(query.buffer) : ~is_uppercase(query.buffer[i])
    /\ MatchedReplacement # table[to_lowercase(query.buffer)].replacement
    /\ MatchedReplacement =
          <<UpperCh(table[to_lowercase(query.buffer)].replacement[1])>>
              \o Tail(table[to_lowercase(query.buffer)].replacement)

\* The parts of the validated word as the parser segments it.
WordInitial == KeysAt(word, parse(word).initial)

WordFinal == KeysAt(word, parse(word).final_c)

\* The positions of the word that belong to its initial, glide, vowel or final.
WordParsed ==
    LET syl == parse(word)
    IN  {syl.initial[i] : i \in 1..Len(syl.initial)} \cup {syl.vowel[i] : i \in 1..Len(syl.vowel)}
        \cup {syl.final_c[i] : i \in 1..Len(syl.final_c)}
        \cup (IF syl.glide = 0 THEN {} ELSE {syl.glide})

\* The enumerated initial clusters
EnumeratedInitials ==
    {<<"b">>, <<"c">>, <<"d">>, <<"g">>, <<"h">>, <<"k">>, <<"l">>, <<"m">>, <<"n">>,
     <<"p">>, <<"q">>, <<"r">>, <<"s">>, <<"t">>, <<"v">>, <<"x">>,
     <<"c", "h">>, <<"g", "h">>, <<"g", "i">>, <<"k", "h">>, <<"n", "g">>, <<"n", "h">>,
     <<"p", "h">>, <<"q", "u">>, <<"t", "h">>, <<"t", "r">>, <<"n", "g", "h">>}

\* The enumerated final clusters
EnumeratedFinals ==
    {<<"c">>, <<"m">>, <<"n">>, <<"p">>, <<"t">>, <<"i">>, <<"y">>, <<"o">>, <<"u">>,
     <<"c", "h">>, <<"n", "g">>, <<"n", "h">>}

\* The failures of the five rules, each stated on the word and its parts.
FailsNoVowel == Len(parse(word).vowel) = 0

FailsInitial == WordInitial # <<>> /\ WordInitial \notin EnumeratedInitials

FailsParsed == \E i \in 1..Len(word) : i \notin WordParsed

FailsSpelling ==
    /\ WordInitial # <<>>
    /\ Len(word) > Len(WordInitial)
    /\ LET next == word[Len(WordInitial) + 1]
       IN  \/ WordInitial = <<"c">> /\ next \in {"e", "i", "y"}
           \/ WordInitial = <<"k">> /\ next \in {"a", "o", "u"}
           \/ WordInitial = <<"g">> /\ next = "e"
           \/ WordInitial = <<"g", "h">> /\ next \in {"a", "o", "u"}
           \/ WordInitial = <<"n", "g">> /\ next \in {"e", "i"}
           \/ WordInitial = <<"n", "g", "h">> /\ next \in {"a", "o", "u"}

FailsFinal == WordFinal # <<>> /\ WordFinal \notin EnumeratedFinals

\* C11: validate returns the classification of the first rule that fails in
\* the order has-vowel, valid-initial, all-letters-parsed, spelling,
\* valid-final: a word without any vowel letter (the empty word too) is
\* NoVowel even when its initial is invalid, and an invalid initial is
\* InvalidInitial even when a spelling or a final rule fails as well.
C11_RuleOrder ==
    verdict # NOT_VALIDATED =>
        /\ verdict = IF FailsNoVowel THEN NO_VOWEL
                     ELSE IF FailsInitial THEN INVALID_INITIAL
                     ELSE IF FailsParsed THEN INVALID_FINAL
                     ELSE IF FailsSpelling THEN INVALID_SPELLING
                     ELSE IF FailsFinal THEN INVALID_FINAL
                     ELSE VALID
        /\ (\A i \in 1..Len(word) : ~is_vowel(word[i])) => verdict = NO_VOWEL

\* A word without a vowel whose initial is no cluster either was classified
\* NoVowel.
C11_Witness ==
    /\ verdict = NO_VOWEL
    /\ FailsInitial
    /\ Len(word) >= 2

\* C12: validate returns Valid exactly when the nucleus is not empty, the
\* initial is empty or an enumerated cluster, every letter belongs to the
\* initial, the glide, the vowel or the final, no spelling constraint is
\* violated, and the final is empty or an enumerated cluster.
C12_ValidExactly ==
    verdict # NOT_VALIDATED =>
        (verdict = VALID <=>
            /\ ~FailsNoVowel
            /\ WordInitial = <<>> \/ WordInitial \in EnumeratedInitials
            /\ WordParsed = 1..Len(word)
            /\ ~FailsSpelling
            /\ WordFinal = <<>> \/ WordFinal \in EnumeratedFinals)

\* A word with a three-letter initial, a nucleus and a final was found valid.
C12_Witness ==
    /\ verdict = VALID
    /\ WordInitial = <<"n", "g", "h">>
    /\ WordFinal # <<>>

\* C13 (as stated): loading a file in which some keys are missing keeps the
\* file's value of every key that is present and takes the default (enabled,
\* Telex) for every key that is missing.
C13_MissingKeysTakeDefaults ==
    (cfg_call.op = "load" /\ cfg_call.file.kind = "toml") =>
        /\ config.enabled = IF cfg_call.file.has_enabled THEN cfg_call.file.enabled ELSE TRUE
        /\ config.mode = IF cfg_call.file.has_mode THEN cfg_call.file.mode ELSE TELEX

\* C14: Config::load always returns a configuration, the default one (enabled,
\* Telex) when the file is absent, unreadable or cannot be parsed; and a failed
\* save leaves the configuration in memory as it was.
C14_LoadNeverFails ==
    /\ config \in {Config(en, mode) : en \in BOOLEAN, mode \in ConfigModes}
    /\ (cfg_call.op = "load" /\ cfg_call.file.kind \in {"absent", "unreadable", "garbage"})
          => config = ConfigDefault
    /\ (cfg_call.op = "save" /\ ~cfg_call.ok) => config = cfg_call.before

\* A load of a file that a failed save had cut short replaced a configuration
\* that was not the default one by the default one.
C14_Witness ==
    /\ cfg_call.op = "load"
    /\ cfg_call.file.kind = "garbage"
    /\ cfg_call.before # ConfigDefault
    /\ config = ConfigDefault

\* The last character of the host text is an upper-case letter.
HostEndsUpper == Len(host) > 0 /\ host[Len(host)].k \in LetterKeys /\ host[Len(host)].caps

\* C15: after a sentence-ender and a space the first letter typed comes out
\* upper-case, and so does the letter typed after that one was deleted.
C15_AutoCapMonotone ==
    (/\ case.kind = "sentence"
     /\ last_call.op = "on_key"
     /\ last_call.key \in LetterKeys
     /\ nkeys >= 5) => HostEndsUpper

\* C17: after x, i, n and Enter the key d gives a Send whose first character
\* is D.
C17_EnterCapitalizes ==
    (case.kind = "enter" /\ RunDone) =>
        /\ result.action = ACTION_SEND
        /\ result.count > 0
        /\ result.chars[1] = Ch("d", TRUE, TONE_NONE, MARK_NONE)

\* C19: a navigation key (an arrow, tab) gives None and leaves the buffer and
\* the last-transform memo as they were, and the letter typed after the space
\* of a sentence and some navigation keys still comes out upper-case.
C19_NavigationTransparent ==
    /\ (/\ case.kind = "navigation"
        /\ last_call.op = "on_key"
        /\ last_call.key \in ArrowKeys \cup {"tab"})
          => /\ result = ResultNone
             /\ Len(buf) = last_call.had
             /\ last_transform = last_call.memo
    /\ (case.kind = "navigation" /\ RunDone /\ last_call.key = "c") => HostEndsUpper

\* C20: clear() after an auto-capitalised word makes the next letter typed
\* upper-case again: the letter after the call comes in a Send that starts
\* with the upper-case letter.
C20_ClearRestoresPending ==
    (case.kind = "clear" /\ RunDone) =>
        /\ result.action = ACTION_SEND
        /\ result.count > 0
        /\ result.chars[1] = Ch("c", TRUE, TONE_NONE, MARK_NONE)

\* C21: a key code outside the key table is a no-op: on_key returns None and
\* the buffer and the last-transform memo are after the call what they were
\* before it.
C21_OtherKeyNoOp ==
    (/\ case.kind = "other"
     /\ last_call.op = "on_key"
     /\ last_call.key = OTHER_KEY)
        => /\ result = ResultNone
           /\ Len(buf) = last_call.had
           /\ last_transform = last_call.memo

\* C22: break neutrality: a break key pressed on an empty buffer returns
\* None and the buffer is still empty after it.
C22_BreakNeutral ==
    (/\ last_call.op = "on_key"
     /\ last_call.key \in BreakKeys
     /\ last_call.had = 0)
        => /\ result.action = ACTION_NONE
           /\ buf = <<>>

\* A break key was pressed, with the engine enabled and ctrl up, on a buffer
\* that an earlier key had emptied.
C22_Witness ==
    /\ last_call.op = "on_key"
    /\ last_call.key \in BreakKeys
    /\ last_call.had = 0
    /\ last_call.was_enabled
    /\ ~last_call.ctrl
    /\ nkeys >= 3
    /\ Len(host) >= 2
    /\ result.action = ACTION_NONE
    /\ buf = <<>>

\* C23: clear is idempotent: in every reachable state clearing twice gives
\* the engine that clearing once gives, and right after a clear() a second
\* one changes nothing.
C23_ClearIdempotent ==
    /\ clear(clear(Eng)) = clear(Eng)
    /\ last_call.op = "clear" => clear(Eng) = Eng

\* clear() was called on a buffer of two entries or more with a transform
\* remembered.
C23_Witness ==
    /\ last_call.op = "clear"
    /\ last_call.had >= 2
    /\ last_call.memo # NoTransform
    /\ buf = <<>>

\* C30: the last-transform memo is None after every event that applies no
\* mark and no tone: delete, a break key, a ctrl or disabled passthrough,
\* clear(), set_enabled(false), a remove trigger, and any key the engine
\* answers with None.
C30_MemoCleared ==
    (\/ last_call.op = "clear"
     \/ last_call.op = "set_enabled" /\ ~enabled
     \/ /\ last_call.op = "on_key"
        /\ \/ last_call.ctrl
           \/ ~last_call.was_enabled
           \/ last_call.key = DELETE
           \/ last_call.key \in BreakKeys
           \/ is_remove(method, last_call.key)
           \/ result.action = ACTION_NONE)
        => last_transform = NoTransform

\* The vowel entries of the buffer, in order, and what the placement table
\* looks at.
Nucleus == find_vowels(buf)

NucleusKey(i) == buf[Nucleus[i]].key

NucleusToned(i) == buf[Nucleus[i]].tone > 0

FinalPresent == \E i \in (Nucleus[Len(Nucleus)] + 1)..Len(buf) : buf[i].key \notin VowelKeys

\* The one entry that carries the mark is entry i.
MarkOnlyOn(i) == \A j \in 1..Len(buf) : (buf[j].mark > 0) <=> (j = i)

\* The rows of the two-vowel table, tried in the listed order; the patterns of
\* the first two rows are the letters u, o and i, e.
TwoVowelRow ==
    IF NucleusKey(1) = "u" /\ NucleusKey(2) = "o" THEN 2
    ELSE IF NucleusKey(1) = "i" /\ NucleusKey(2) = "e" THEN 2
    ELSE IF NucleusToned(1) /\ ~NucleusToned(2) THEN 1
    ELSE IF NucleusToned(2) THEN 2
    ELSE IF FinalPresent THEN 2
    ELSE IF <<NucleusKey(1), NucleusKey(2)>> \in
              {<<"o", "a">>, <<"o", "e">>, <<"u", "y">>, <<"u", "a">>, <<"u", "e">>}
         THEN (IF modern THEN 2 ELSE 1)
    ELSE 1

ThreeVowelRowListed ==
    IF NucleusKey(1) = "u" /\ NucleusKey(2) = "o" THEN 2
    ELSE IF NucleusKey(2) \in {"e", "a"} THEN 2
    ELSE IF NucleusToned(2) THEN 2
    ELSE IF NucleusToned(3) THEN 3
    ELSE 2

\* C25 as stated: for three vowels the mark goes on the middle vowel for
\* uo + vowel, else on a middle e or a, else on a vowel other than the first
\* that carries a tone modifier, and otherwise on the middle vowel, also when
\* only the first vowel carries a tone modifier.
C25_ThreeVowelListed ==
    (case.kind = "triple" /\ RunDone) =>
        /\ Len(Nucleus) = 3
        /\ MarkOnlyOn(Nucleus[ThreeVowelRowListed])

\* The rows of the three-vowel table with the row of the modified first vowel.
ThreeVowelRow ==
    IF NucleusKey(1) = "u" /\ NucleusKey(2) = "o" THEN 2
    ELSE IF NucleusKey(2) \in {"e", "a"} THEN 2
    ELSE IF NucleusToned(2) THEN 2
    ELSE IF NucleusToned(3) THEN 3
    ELSE IF NucleusToned(1) THEN 1
    ELSE 2

\* C25: for three vowels the mark goes on the middle vowel for uo + vowel,
\* else on a middle e or a, else on a vowel other than the first that carries
\* a tone modifier, else on the first vowel when it carries a tone modifier,
\* and otherwise on the middle vowel.
C25_ThreeVowelTable ==
    (case.kind = "triple" /\ RunDone) =>
        /\ Len(Nucleus) = 3
        /\ result.action = ACTION_SEND
        /\ MarkOnlyOn(Nucleus[ThreeVowelRow])

\* Only the first of three vowels carries a tone modifier, the middle one is
\* no e and no a, and the mark went on the first.
C25_Witness ==
    /\ case.kind = "triple"
    /\ RunDone
    /\ NucleusToned(1) /\ ~NucleusToned(2) /\ ~NucleusToned(3)
    /\ NucleusKey(2) \notin {"e", "a"}
    /\ ~(NucleusKey(1) = "u" /\ NucleusKey(2) = "o")
    /\ buf[Nucleus[1]].mark = ACUTE

\* C26: in a word that begins with qu, or with gi and another vowel, the mark
\* goes on the vowel after the onset, never on the u of qu or the i of gi,
\* under modern and under traditional placement.
C26_OnsetNeverMarked ==
    (case.kind = "onset" /\ RunDone) =>
        /\ buf[2].mark = MARK_NONE
        /\ buf[3].mark = ACUTE
        /\ host = <<Lit(script[1].key), Lit(script[2].key),
                    Ch(script[3].key, FALSE, TONE_NONE, ACUTE)>>

\* C27: the host text is the same whether the mark key is typed right after
\* the first vowel or after the later letters of the word.
C27_MarkOrderIndependent ==
    (case.kind = "order" /\ RunDone) => host = RunKeys(case.method, case.modern, case.peer)

\* The engine a run is in after the first n steps of its script.
RECURSIVE EngineAfter(_, _, _)
EngineAfter(e, keys, n) ==
    IF n = 0 THEN e
    ELSE on_key(EngineAfter(e, keys, n - 1), keys[n].key, keys[n].caps, FALSE).e

\* The buffer of the run before its last key, and before its last two keys.
BufBeforeLast ==
    EngineAfter(set_modern(set_method(NewEngine, case.method), case.modern),
                script, Len(script) - 1).buf

BufBeforeLastTwo ==
    EngineAfter(set_modern(set_method(NewEngine, case.method), case.modern),
                script, Len(script) - 2).buf

\* The entries whose tone modifier the key before the last one changed.
ModifiedByTrigger ==
    {i \in 1..Len(BufBeforeLast) : BufBeforeLast[i].tone # BufBeforeLastTwo[i].tone}

\* C28: a double-press tone revert clears the tone modifier of exactly the
\* vowel the reverted trigger had modified, leaves every other entry as it
\* was, and emits the text rebuilt from that vowel followed by the literal
\* trigger character.
C28_ToneRevertExact ==
    (case.kind = "tone_revert" /\ RunDone) =>
        \E i \in ModifiedByTrigger :
            /\ buf = [BufBeforeLast EXCEPT ![i].tone = TONE_NONE]
            /\ result = AppendKeyChar(rebuild_from(buf, i), last_call.key, last_call.caps)

\* The vowel entries of the buffer before the remove trigger that carry a
\* mark, and those that carry a tone modifier.
MarkedBefore == {i \in 1..Len(BufBeforeLast) : BufBeforeLast[i].mark > 0}

TonedBefore == {i \in 1..Len(BufBeforeLast) : BufBeforeLast[i].tone > 0}

\* C29: the remove trigger clears a mark whenever a buffered vowel carries
\* one, and a tone modifier only when no buffered vowel carries a mark; one
\* diacritic is cleared and the result is the rebuild from the changed vowel.
C29_RemoveMarkFirst ==
    (case.kind = "remove" /\ RunDone) =>
        IF MarkedBefore # {}
        THEN \E i \in MarkedBefore :
                /\ buf = [BufBeforeLast EXCEPT ![i].mark = MARK_NONE]
                /\ result = rebuild_from(buf, i)
        ELSE \E i \in TonedBefore :
                /\ buf = [BufBeforeLast EXCEPT ![i].tone = TONE_NONE]
                /\ result = rebuild_from(buf, i)

\* C31: the stroke trigger removes the buffered d and returns a Send with
\* backspace 1 and one character, the stroked d, upper case exactly when the
\* buffered d was typed with caps, whatever the caps of the trigger key.
C31_StrokeTrigger ==
    (case.kind = "stroke" /\ RunDone) =>
        /\ buf = SubSeq(BufBeforeLast, 1, Len(BufBeforeLast) - 1)
        /\ result = [action |-> ACTION_SEND, backspace |-> 1, count |-> 1,
                     chars |-> <<Ch("d", BufBeforeLast[Len(BufBeforeLast)].caps,
                                    STROKE, MARK_NONE)>>]

\* A d typed with caps, then the trigger without caps, gave the upper-case
\* stroked d.
C31_Witness ==
    /\ case.kind = "stroke"
    /\ RunDone
    /\ BufBeforeLast[Len(BufBeforeLast)] = NewChar("d", TRUE)
    /\ ~last_call.caps
    /\ result.chars = <<Ch("d", TRUE, STROKE, MARK_NONE)>>
    /\ host[Len(host)] = Ch("d", TRUE, STROKE, MARK_NONE)

\* C33: the buffer never holds more than MAX entries; a normal letter that
\* arrives on a full buffer clears it first, the buffer then holds only the
\* new letter, and the key returns its normal result, None.
C33_BufferBounded ==
    /\ Len(buf) <= MAX
    /\ (/\ case.kind = "overflow"
        /\ last_call.op = "on_key"
        /\ last_call.had = MAX)
          => /\ buf = <<NewChar(last_call.key, last_call.caps)>>
             /\ result = ResultNone

\* A letter arrived on a full buffer.
C33_Witness ==
    /\ case.kind = "overflow"
    /\ last_call.had = MAX
    /\ last_call.key = "a"
    /\ buf = <<NewChar("a", FALSE)>>
    /\ Len(host) = MAX + 1

\* C34: no character of an edit command is truncated: count is at most MAX,
\* chars holds all count characters, and the Send of a revert ends with the
\* literal character of the trigger key, also when the rebuilt text spans
\* the whole buffer.
C34_NoTruncation ==
    /\ result.count <= MAX
    /\ Len(result.chars) = result.count
    /\ (case.kind = "full_revert" /\ RunDone) =>
          /\ result.action = ACTION_SEND
          /\ result.chars[Len(result.chars)] = Lit(last_call.key)

\* C32: in every reachable state a buffer entry has a mark, or a tone
\* modifier circumflex, breve or horn, only if its key is a vowel.
C32_DiacriticsOnVowels ==
    \A i \in 1..Len(buf) :
        (buf[i].mark # MARK_NONE \/ buf[i].tone \in {CIRCUMFLEX, BREVE, HORN})
            => buf[i].key \in VowelKeys

\* The buffer holds a consonant next to a vowel that carries a tone modifier
\* and a mark, after a mark trigger.
C32_Witness ==
    /\ Len(buf) = 2
    /\ buf[1].key \notin VowelKeys
    /\ buf[2].key \in VowelKeys /\ buf[2].tone # TONE_NONE /\ buf[2].mark # MARK_NONE
    /\ last_transform.kind = 1
    /\ result.action = ACTION_SEND

\* C37: in every reachable state at most one buffer entry carries a mark.
C37_OneMark == Cardinality({i \in 1..Len(buf) : buf[i].mark # MARK_NONE}) <= 1

\* C38: whenever a key is answered with a Send of backspace b, the last b
\* characters of the host text are the renderings of the last b buffer
\* entries, the ones the Send rewrites.
C38_SendRewritesBuffer ==
    [][(/\ last_call'.op = "on_key"
        /\ nkeys' = nkeys + 1
        /\ result'.action = ACTION_SEND)
          => /\ result'.backspace <= Len(buf)
             /\ result'.backspace <= Len(host)
             /\ SubSeq(host, Len(host) - result'.backspace + 1, Len(host))
                  = RebuildOutput(buf, Len(buf) - result'.backspace + 1)]_vars

\* ------------------------------------------------------------------------
\* The shortcut table under add, remove and clear alone
\* ------------------------------------------------------------------------

\* A table made by ShortcutTable::new or by with_defaults, before any try_match.
InitTableOps ==
    /\ InitEngine(NewEngine)
    /\ InitValidator(<<>>)
    /\ InitConfig(NoFile)
    /\ InitProcess
    /\ InitHook
    /\ script = <<>>
    /\ case = [kind |-> "table"]
    /\ \/ InitTable(EmptyTable, <<>>, NoQuery)
       \/ \E sorted \in SortedOrders(DOMAIN DefaultTable) :
             InitTable(DefaultTable, sorted, NoQuery)

SpecTable == InitTableOps /\ [][NextShortcut]_vars

\* The sorted trigger list holds exactly the triggers of the map, each once,
\* longest first.
SortedListExact ==
    /\ Len(sorted_triggers) = Cardinality(DOMAIN table)
    /\ {sorted_triggers[i] : i \in 1..Len(sorted_triggers)} = DOMAIN table
    /\ \A i, j \in 1..Len(sorted_triggers) :
          i < j => StrLen(sorted_triggers[i]) >= StrLen(sorted_triggers[j])

\* A step of add: the map holds the shortcut added under its trigger, every
\* other trigger keeps its shortcut, a trigger already present adds no entry,
\* and lookup of the trigger answers with the shortcut added (with none when
\* it is disabled), never with the one it replaced.
AddReplaces ==
    (table_op' = "add" /\ nops' = nops + 1) =>
        \E s \in UserShortcuts :
            /\ s.trigger \in DOMAIN table'
            /\ table'[s.trigger] = s
            /\ DOMAIN table' = DOMAIN table \cup {s.trigger}
            /\ \A x \in DOMAIN table \ {s.trigger} : table'[x] = table[x]
            /\ s.trigger \in DOMAIN table
                  => Cardinality(DOMAIN table') = Cardinality(DOMAIN table)
            /\ lookup(table', sorted_triggers', s.trigger)
                  = IF s.enabled THEN s ELSE NoShortcut

PrefixConsonants == {"b", "c", "h"}

\* The texts of up to MaxPrefix such consonants.
Prefixes == {Str(p) : p \in UNION {[1..n -> PrefixConsonants] : n \in 0..MaxPrefix}}

\* The two-key texts convert_telex and convert_vni answer.
TelexSequences ==
    {q \in {Str(<<a, b>>) : a \in TableVowels \cup {"d"},
                            b \in TableVowels \cup {"d", "w"} \cup DOMAIN TelexMarkOf} :
        convert_telex(q) # NoChar}

VniSequences ==
    {q \in {Str(<<a, b>>) : a \in TableVowels \cup {"d"},
                            b \in {"6", "7", "8", "9"} \cup DOMAIN VniMarkOf} :
        convert_vni(q) # NoChar}

\* The texts handed to process_input: a prefix, then one table sequence.
Inputs == {p \o q : p \in Prefixes, q \in TelexSequences \cup VniSequences}

\* The modes of process_input: Telex, VNI and one that is neither.
Modes == {0, 1, 2}

\* process_input is called once on a text (it keeps no state between calls).
ProcessInput ==
    /\ pi_input = <<>>
    /\ \E input \in Inputs, mode \in Modes :
          /\ pi_input' = input
          /\ pi_mode' = mode
          /\ pi_output' = process_input(input, mode)
    /\ UNCHANGED <<evars, tvars, vvars, cvars, hvars>>

InitInput ==
    /\ InitEngine(NewEngine)
    /\ script = <<>>
    /\ case = [kind |-> "process_input"]
    /\ InitTable(EmptyTable, <<>>, NoQuery)
    /\ InitValidator(<<>>)
    /\ InitConfig(NoFile)
    /\ InitProcess
    /\ InitHook

SpecInput == InitInput /\ [][ProcessInput]_vars

\* C36: process_input in mode 0 converts a two-key Telex sequence of its table
\* wherever it starts and copies every other character: for every input made
\* of a prefix of non-trigger consonants followed by one table sequence, the
\* output is the prefix followed by the Vietnamese character.
C36_TelexAfterPrefix ==
    \A p \in Prefixes, q \in TelexSequences :
        (pi_mode = 0 /\ pi_input = p \o q) => pi_output = p \o <<convert_telex(q)>>

\* ------------------------------------------------------------------------
\* The state machine of the keyboard hook: threads call start and stop, keys
\* are pressed, the listener threads hand them to the callback
\* ------------------------------------------------------------------------

\* A listener thread: the number of stop calls before it was spawned (its
\* running period) and the number of key presses its closure has been given.
Listener(epoch, seen) == [epoch |-> epoch, seen |-> seen]

\* One call of the callback: the listener that made it and the number of stop
\* calls before it.
Delivery(listener, epoch) == [listener |-> listener, epoch |-> epoch]

\* start, its first step: RUNNING.load; a hook that runs makes start return.
StartLoad(c) ==
    /\ pc[c] = "idle"
    /\ hook_calls < MaxHookCalls
    /\ hook_calls' = hook_calls + 1
    /\ pc' = IF RUNNING THEN pc ELSE [pc EXCEPT ![c] = "store"]
    /\ UNCHANGED <<RUNNING, listeners, stops, presses, calls>>
    /\ UNCHANGED <<evars, tvars, vvars, cvars, pvars>>

\* start, its second step: RUNNING.store(true)
StartStore(c) ==
    /\ pc[c] = "store"
    /\ RUNNING' = TRUE
    /\ pc' = [pc EXCEPT ![c] = "spawn"]
    /\ UNCHANGED <<listeners, stops, presses, calls, hook_calls>>
    /\ UNCHANGED <<evars, tvars, vvars, cvars, pvars>>

\* start, its third step: thread::spawn of a listener, which sees the key
\* presses from now on and never ends (listen blocks).
StartSpawn(c) ==
    /\ pc[c] = "spawn"
    /\ listeners' = Append(listeners, Listener(stops, presses))
    /\ pc' = [pc EXCEPT ![c] = "idle"]
    /\ UNCHANGED <<RUNNING, stops, presses, calls, hook_calls>>
    /\ UNCHANGED <<evars, tvars, vvars, cvars, pvars>>

\* stop: RUNNING.store(false)
Stop(c) ==
    /\ pc[c] = "idle"
    /\ hook_calls < MaxHookCalls
    /\ hook_calls' = hook_calls + 1
    /\ RUNNING' = FALSE
    /\ stops' = stops + 1
    /\ UNCHANGED <<pc, listeners, presses, calls>>
    /\ UNCHANGED <<evars, tvars, vvars, cvars, pvars>>

\* The user presses a key: the system hands the event to every listener.
KeyPress ==
    /\ presses < MaxPresses
    /\ presses' = presses + 1
    /\ calls' = Append(calls, {})
    /\ UNCHANGED <<RUNNING, pc, listeners, stops, hook_calls>>
    /\ UNCHANGED <<evars, tvars, vvars, cvars, pvars>>

\* The closure of a listener on its next key press: nothing when RUNNING is
\* false, else the callback.
Deliver(l) ==
    /\ l \in 1..Len(listeners)
    /\ listeners[l].seen < presses
    /\ LET k == listeners[l].seen + 1
       IN /\ listeners' = [listeners EXCEPT ![l].seen = k]
          /\ calls' = IF RUNNING
                      THEN [calls EXCEPT ![k] = @ \cup {Delivery(l, stops)}]
                      ELSE calls
    /\ UNCHANGED <<RUNNING, pc, stops, presses, hook_calls>>
    /\ UNCHANGED <<evars, tvars, vvars, cvars, pvars>>

InitHookRun ==
    /\ InitEngine(NewEngine)
    /\ script = <<>>
    /\ case = [kind |-> "hook"]
    /\ InitTable(EmptyTable, <<>>, NoQuery)
    /\ InitValidator(<<>>)
    /\ InitConfig(NoFile)
    /\ InitProcess
    /\ InitHook

NextHook ==
    \/ \E c \in Callers : StartLoad(c)
    \/ \E c \in Callers : StartStore(c)
    \/ \E c \in Callers : StartSpawn(c)
    \/ \E c \in Callers : Stop(c)
    \/ KeyPress
    \/ \E l \in 1..(MaxHookCalls + 1) : Deliver(l)

SpecHook == InitHookRun /\ [][NextHook]_vars

\* C39: however the calls of start interleave, at most one listener thread is
\* spawned for one running period: no two listeners were spawned between the
\* same two calls of stop.
C39_OneListenerPerPeriod ==
    \A i, j \in 1..Len(listeners) :
        listeners[i].epoch = listeners[j].epoch => i = j

\* C40: with start and stop called one after the other (no two listeners of
\* one running period), a key press calls the callback at most once, and the
\* listener that calls it was spawned in the running period of the call: a
\* listener that was stopped never delivers again.
C40_StoppedListenerSilent ==
    C39_OneListenerPerPeriod =>
        \A k \in 1..presses :
            /\ Cardinality(calls[k]) <= 1
            /\ \A d \in calls[k] : listeners[d.listener].epoch = d.epoch

====
